---- MODULE Spec2Model ----
(***************************************************************************)
(* StorTrooper character editor: the article catalog (model.py), the       *)
(* per-document canvas with its layer-exclusive selection (CanvasWidget in *)
(* ui.py) and the MainWindow handlers that drive them (reload, asset       *)
(* click, project save/open, randomize, change outfit, export).            *)
(*                                                                         *)
(* Strings that the code inspects character-wise (inventory lines, article *)
(* fields) are sequences of tokens; a token is an indivisible run of       *)
(* characters.  "tops" is <<"tops">>, "a_brazos_arriba.gif" is             *)
(* <<"a", "_brazos_arriba", ".gif">>.  Names that are only compared        *)
(* (character names, file names, paths) are plain strings.                 *)
(***************************************************************************)
EXTENDS Integers, Sequences, FiniteSets, TLC

\* ------------------------------------------------------------------------
\* Bounds of the model
\* ------------------------------------------------------------------------
MaxTabs == 2

\* ------------------------------------------------------------------------
\* Generic helpers
\* ------------------------------------------------------------------------
None == [t |-> "None"]

Range(s) == {s[i] : i \in DOMAIN s}

RECURSIVE SeqFilterOut(_, _)
\* the sequence s without its entries whose key (first component) is k
SeqFilterOut(s, k) ==
    IF s = <<>> THEN <<>>
    ELSE IF Head(s)[1] = k THEN SeqFilterOut(Tail(s), k)
    ELSE <<Head(s)>> \o SeqFilterOut(Tail(s), k)

\* Python dict, insertion ordered: a sequence of <<key, value>> entries.
DictHas(d, k) == \E i \in DOMAIN d : d[i][1] = k

DictGet(d, k) ==
    IF DictHas(d, k) THEN d[CHOOSE i \in DOMAIN d : d[i][1] = k][2] ELSE None

DictDel(d, k) == SeqFilterOut(d, k)

\* d[k] = v : an existing key keeps its position, a new key goes last
DictSet(d, k, v) ==
    IF DictHas(d, k)
    THEN [i \in DOMAIN d |-> IF d[i][1] = k THEN <<k, v>> ELSE d[i]]
    ELSE Append(d, <<k, v>>)

DictKeys(d) == [i \in DOMAIN d |-> d[i][1]]

DictValues(d) == [i \in DOMAIN d |-> d[i][2]]

\* ------------------------------------------------------------------------
\* Token strings
\* ------------------------------------------------------------------------
Str(s) == <<s>>

QUOTE == "\""

Whitespace == {" ", "\t", "\n"}

RECURSIVE lstrip(_)
lstrip(s) ==
    IF s = <<>> THEN <<>>
    ELSE IF Head(s) \in Whitespace THEN lstrip(Tail(s)) ELSE s

RECURSIVE rstrip(_)
rstrip(s) ==
    IF s = <<>> THEN <<>>
    ELSE IF s[Len(s)] \in Whitespace THEN rstrip(SubSeq(s, 1, Len(s) - 1)) ELSE s

\* str.strip()
strip(s) == rstrip(lstrip(s))

\* sub in s, for a substring that is one token
Contains(s, sub) == \E i \in DOMAIN s : s[i] = sub

\* s.startswith(prefix), for a prefix that is one token
StartsWith(s, prefix) == s # <<>> /\ s[1] = prefix

RECURSIVE split(_, _)
\* str.split(sep): the fragments between the separators, n+1 for n separators
split(s, sep) ==
    IF ~Contains(s, sep) THEN <<s>>
    ELSE LET i == CHOOSE j \in DOMAIN s :
                     s[j] = sep /\ \A m \in 1..(j - 1) : s[m] # sep
         IN  <<SubSeq(s, 1, i - 1)>> \o split(SubSeq(s, i + 1, Len(s)), sep)

\* the decimal literals that occur in the inventory files
DecimalValue ==
    [n \in {"0", "1", "2", "3", "5", "10", "20"} |->
        CASE n = "0" -> 0 [] n = "1" -> 1 [] n = "2" -> 2 [] n = "3" -> 3
          [] n = "5" -> 5 [] n = "10" -> 10 [] n = "20" -> 20]

\* int(s) succeeds iff s, stripped, is one decimal literal
IsInt(s) == Len(strip(s)) = 1 /\ strip(s)[1] \in DOMAIN DecimalValue

int(s) == DecimalValue[strip(s)[1]]

\* ------------------------------------------------------------------------
\* The resource tree <res_root>/<character>/... (read-only, externally
\* populated) and the project files the user can name
\* ------------------------------------------------------------------------
\* one quoted field, and one record line of quoted fields separated by blanks
Quoted(f) == <<QUOTE>> \o f \o <<QUOTE>>

RECURSIVE RecordLine(_)
RecordLine(fields) ==
    IF fields = <<>> THEN <<>>
    ELSE IF Len(fields) = 1 THEN Quoted(fields[1])
    ELSE Quoted(Head(fields)) \o <<" ">> \o RecordLine(Tail(fields))

SentinelLine == RecordLine(<<Str("HCDataSetFile_data"), <<"1", ".", "0">>>>) \o <<"\n">>

\* <res_root>/boy/articles.txt
BoyArticlesTxt ==
    << <<"\n">>,
       <<"#", " This is a comment", "\n">>,
       RecordLine(<<Str("9"), <<"early", ".png">>, Str("body"), Str("body"),
                    Str("0"), Str("0"), Str("-1")>>) \o <<"\n">>,
       SentinelLine,
       <<" ", "\n">>,
       RecordLine(<<Str("1"), <<"body", ".png">>, Str("body"), Str("body"),
                    Str("0"), Str("0"), Str("-1")>>) \o <<"\n">>,
       RecordLine(<<Str("1"), <<"body", "_brazos_arriba", ".png">>, Str("body"),
                    Str("body"), Str("0"), Str("0"), Str("0")>>) \o <<"\n">>,
       <<"#">> \o RecordLine(<<Str("8"), <<"off", ".png">>, Str("hats"), Str("hats"),
                    Str("0"), Str("0"), Str("-1")>>) \o <<"\n">>,
       RecordLine(<<Str("1"), <<"shirt", ".png">>, Str("tops"), Str("tops"),
                    Str("10"), Str("20"), Str("-1")>>) \o <<"\n">>,
       RecordLine(<<Str("3"), <<"torn", ".png">>, Str("tops"), Str("tops"),
                    Str("10"), Str("20"), Str("-1")>>) \o <<"\n">>,
       RecordLine(<<Str("4"), <<"short", ".png">>, Str("hats"), Str("hats"),
                    Str("0"), Str("0")>>) \o <<"\n">>,
       <<" ", " ">> \o RecordLine(<<Str("2"), <<"boots", ".png">>, Str("shoes"),
                    Str("shoes"), Str("5"), Str("abc"), Str("-1"), Str("extra")>>)
    >>

\* <res_root>/boy/articles2.txt : layers the z table does not know
BoyArticles2Txt ==
    << SentinelLine,
       RecordLine(<<Str("1"), <<"face", ".png">>, Str("face"), Str("face"),
                    Str("1"), Str("1"), Str("-1")>>) \o <<"\n">>,
       RecordLine(<<Str("5"), <<"cape", ".png">>, Str("behind"), Str("behind"),
                    Str("0"), Str("0"), Str("-1")>>) \o <<"\n">>
    >>

\* <res_root>/girl/articles_b.txt : a category that is not its layer
GirlArticlesBTxt ==
    << SentinelLine,
       RecordLine(<<Str("1"), <<"gbody", ".png">>, Str("body"), Str("body"),
                    Str("0"), Str("0"), Str("-1")>>) \o <<"\n">>,
       RecordLine(<<Str("2"), <<"dress", ".png">>, Str("tops"), Str("body"),
                    Str("2"), Str("3"), Str("-1")>>) \o <<"\n">>
    >>

\* the text files of the tree, by <<directory, file name>>
TextFiles ==
    { [dir |-> "boy",  file |-> "articles.txt",    lines |-> BoyArticlesTxt],
      [dir |-> "boy",  file |-> "articles2.txt",   lines |-> BoyArticles2Txt],
      [dir |-> "boy",  file |-> "notes.txt",       lines |-> <<>>],
      [dir |-> "girl", file |-> "articles_b.txt",  lines |-> GirlArticlesBTxt] }

\* the directories directly under <res_root>, in listing order
ResDirs == <<"girl", "data", ".cache", "boy", "ghost">>

\* the names that start with "." and the names that match articles*.txt
DotNames == {".cache"}

ArticlesGlob == {"articles.txt", "articles2.txt", "articles_b.txt"}

\* every name the program sorts, in ascending string order
StringOrder ==
    <<".cache", "articles.txt", "articles2.txt", "articles_b.txt", "behind",
      "body", "boy", "data", "face", "ghost", "girl", "hats", "notes.txt",
      "shoes", "tops">>

\* sorted(names) of a set of names
sorted(names) == SelectSeq(StringOrder, LAMBDA n : n \in names)

\* the images under <res_root>/<character>/data that decode, with their size
ImageFiles ==
    { [dir |-> "boy",  image |-> <<"body", ".png">>,  w |-> 4, h |-> 8],
      [dir |-> "boy",  image |-> <<"shirt", ".png">>, w |-> 3, h |-> 2],
      [dir |-> "boy",  image |-> <<"face", ".png">>,  w |-> 2, h |-> 2],
      [dir |-> "boy",  image |-> <<"cape", ".png">>,  w |-> 6, h |-> 9],
      [dir |-> "girl", image |-> <<"gbody", ".png">>, w |-> 4, h |-> 7],
      [dir |-> "girl", image |-> <<"dress", ".png">>, w |-> 5, h |-> 5] }

\* os.path.exists(<res_root>/dir/file)
FileExists(dir, file) == \E f \in TextFiles : f.dir = dir /\ f.file = file

ReadLines(dir, file) ==
    (CHOOSE f \in TextFiles : f.dir = dir /\ f.file = file).lines

\* ------------------------------------------------------------------------
\* model.py
\* ------------------------------------------------------------------------
Article(id, image_name, category, layer_name, x, y, wearing, local_path) ==
    [id |-> id, image_name |-> image_name, category |-> category,
     layer_name |-> layer_name, x |-> x, y |-> y, wearing |-> wearing,
     local_path |-> local_path]

\* CharacterData.get_available_article_files
get_available_article_files(char_name) ==
    IF ~(\E i \in DOMAIN ResDirs : ResDirs[i] = char_name) THEN <<>>
    ELSE sorted({f.file : f \in {g \in TextFiles :
                                    g.dir = char_name /\ g.file \in ArticlesGlob}})

\* CharacterData.__init__ : the fixed stacking order, back to front
layer_order ==
    <<Str("behind"), Str("body"), Str("hair"), Str("underware"), Str("tops"),
      Str("shoes"), Str("bottoms"), Str("jackets"), Str("hats"), Str("infront")>>

\* the z table numbered from 1
layer_z_index_from_one == [i \in DOMAIN layer_order |-> <<layer_order[i], i>>]

\* {name: i for i, name in enumerate(layer_order)} as a dict
layer_z_index == [i \in DOMAIN layer_order |-> <<layer_order[i], i - 1>>]

CharacterData(name, articles_filename) ==
    [name |-> name, articles_filename |-> articles_filename,
     articles |-> <<>>, categories |-> <<>>]

\* the parts of one stripped line: its non-blank fragments between quotes
Parts(line) == SelectSeq(split(line, QUOTE), LAMBDA p : strip(p) # <<>>)

\* len(parts) > 7 : a record needs an eighth field
EnoughParts_more(parts) == Len(parts) > 7

\* len(parts) >= 7
EnoughParts(parts) == Len(parts) >= 7

\* x and y parsed each on its own, each 0 when it does not parse
ParseXY_each(parts) ==
    <<IF IsInt(parts[5]) THEN int(parts[5]) ELSE 0,
      IF IsInt(parts[6]) THEN int(parts[6]) ELSE 0>>

\* the try block around int(parts[4]), int(parts[5]): <<x, y>>
ParseXY(parts) ==
    IF IsInt(parts[5]) /\ IsInt(parts[6]) THEN <<int(parts[5]), int(parts[6])>>
    ELSE <<0, 0>>

\* the filter comparing the whole image name
Filtered_exact(img_name) == img_name = <<"_brazos_arriba">>

\* "_brazos_arriba" in img_name
Filtered(img_name) == Contains(img_name, "_brazos_arriba")

\* the category list started anew by every article
AppendArticle_reset(cd, article) ==
    [cd EXCEPT !.articles = Append(@, article),
               !.categories = DictSet(@, article.category, <<article>>)]

\* self.articles.append(article) and the append to its category's list
AppendArticle(cd, article) ==
    LET cats == IF DictHas(cd.categories, article.category)
                THEN cd.categories
                ELSE DictSet(cd.categories, article.category, <<>>)
    IN  [cd EXCEPT !.articles = Append(@, article),
                   !.categories =
                       DictSet(cats, article.category,
                               Append(DictGet(cats, article.category), article))]

\* the article of a record line split into parts
ArticleOf(cd, parts) ==
    Article(parts[1], parts[2], parts[3], parts[4], ParseXY(parts)[1],
            ParseXY(parts)[2], parts[7], <<cd.name, "data", parts[2]>>)

\* one iteration of the loop of load: st is [cd, in_data]
LoadLine(st, raw) ==
    LET line == strip(raw) IN
    IF line = <<>> \/ StartsWith(line, "#") THEN st
    ELSE IF Contains(line, "HCDataSetFile_data") THEN [st EXCEPT !.in_data = TRUE]
    ELSE IF ~st.in_data THEN st
    ELSE IF ~EnoughParts(Parts(line)) THEN st
    ELSE IF Filtered(Parts(line)[2]) THEN st
    ELSE [st EXCEPT !.cd = AppendArticle(@, ArticleOf(st.cd, Parts(line)))]

RECURSIVE LoadLines(_, _)
LoadLines(st, lines) ==
    IF lines = <<>> THEN st ELSE LoadLines(LoadLine(st, Head(lines)), Tail(lines))

\* the loop of load over the lines readlines() returned
LoadFrom(cd, lines) == LoadLines([cd |-> cd, in_data |-> FALSE], lines).cd

\* CharacterData.load : a missing file leaves the catalog empty
load(cd) ==
    IF ~FileExists(cd.name, cd.articles_filename) THEN cd
    ELSE LoadFrom(cd, ReadLines(cd.name, cd.articles_filename))

\* the inventory files are read-only: what CharacterData(name, res_path,
\* articles_filename) followed by load() yields for every directory and
\* file name, computed once
RECURSIVE LoadAll(_)
LoadAll(keys) ==
    LET k == CHOOSE x \in keys : TRUE IN
    IF keys = {k} THEN k :> load(CharacterData(k[1], k[2]))
    ELSE (k :> load(CharacterData(k[1], k[2]))) @@ LoadAll(keys \ {k})

LoadedFiles ==
    LoadAll({ResDirs[d] : d \in DOMAIN ResDirs}
            \X ({f.file : f \in TextFiles} \cup {"articles.txt"}))

LoadCharacterData(name, articles_filename) == LoadedFiles[<<name, articles_filename>>]

\* get_article_z_index putting every layer at the bottom
get_article_z_index_bottom(article) == 0

\* get_article_z_index counting from the front instead of from the back
get_article_z_index_reversed(article) ==
    IF DictHas(layer_z_index, article.layer_name)
    THEN Len(layer_order) - 1 - DictGet(layer_z_index, article.layer_name)
    ELSE 0

\* CharacterData.get_article_z_index, by layer name
get_article_z_index(article) ==
    IF DictHas(layer_z_index, article.layer_name)
    THEN DictGet(layer_z_index, article.layer_name)
    ELSE 0

\* ------------------------------------------------------------------------
\* ui.py : CanvasWidget.  A canvas is a record; its methods take the window
\* state w (see MainWindow below) and the position i of the canvas in
\* w.tabs, and return the new window state.
\* ------------------------------------------------------------------------
\* QPixmap(path): null when the file is missing or does not decode
QPixmap(local_path) ==
    IF \E f \in ImageFiles : f.dir = local_path[1] /\ f.image = local_path[3]
    THEN LET f == CHOOSE g \in ImageFiles :
                      g.dir = local_path[1] /\ g.image = local_path[3]
         IN  [isNull |-> FALSE, path |-> local_path, w |-> f.w, h |-> f.h]
    ELSE [isNull |-> TRUE, path |-> local_path, w |-> 0, h |-> 0]

\* the default zoom 4.0, counted in steps of 0.5
DefaultZoom == 8

\* CanvasWidget.__init__ ; the canvas has no character_data attribute yet
CanvasWidget ==
    [has_character_data |-> FALSE,
     character_data |-> None,
     active_articles |-> <<>>,
     pixmap_items |-> <<>>,
     scene |-> <<>>,
     current_zoom |-> DefaultZoom,
     project_file_path |-> "",
     category_states |-> <<>>]

\* logging.* and QMessageBox.* calls of the running handler, in order
Log(w, level, text) == [w EXCEPT !.log = Append(@, <<level, text, "">>)]

\* a message that ends with the text e of an exception
LogException(w, level, text, e) == [w EXCEPT !.log = Append(@, <<level, text, e>>)]

\* QGraphicsScene.removeItem: the scene without (the first occurrence of) item
removeItem(scene, item) ==
    IF \E i \in DOMAIN scene : scene[i] = item
    THEN LET i == CHOOSE j \in DOMAIN scene :
                      scene[j] = item /\ \A m \in 1..(j - 1) : scene[m] # item
         IN  SubSeq(scene, 1, i - 1) \o SubSeq(scene, i + 1, Len(scene))
    ELSE scene

\* clear emptying every canvas of the window
clear_every_canvas(w, i) ==
    [w EXCEPT !.tabs = [k \in DOMAIN w.tabs |->
                           [w.tabs[k] EXCEPT !.active_articles = <<>>,
                                             !.scene = <<>>,
                                             !.pixmap_items = <<>>]]]

\* CanvasWidget.clear
clear(w, i) ==
    [w EXCEPT !.tabs[i].active_articles = <<>>,
              !.tabs[i].scene = <<>>,
              !.tabs[i].pixmap_items = <<>>]

\* set_character without the clear: the selection outlives the catalog
set_character_keep(w, i, character_data) ==
    [w EXCEPT !.tabs[i].character_data = character_data,
              !.tabs[i].has_character_data = TRUE]

\* CanvasWidget.set_character
set_character(w, i, character_data) ==
    clear([w EXCEPT !.tabs[i].character_data = character_data,
                    !.tabs[i].has_character_data = TRUE], i)

\* update_article without its first half: the new image is stacked on the old
RemoveExisting_keep(c, layer_name) == c

\* update_article emptying the canvas instead of the one layer
RemoveExisting_all(c, layer_name) ==
    [c EXCEPT !.scene = <<>>, !.pixmap_items = <<>>, !.active_articles = <<>>]

\* the first half of update_article: drop the item the layer holds, if any
RemoveExisting(c, layer_name) ==
    IF DictHas(c.pixmap_items, layer_name)
    THEN [c EXCEPT !.scene = removeItem(@, DictGet(c.pixmap_items, layer_name)),
                   !.pixmap_items = DictDel(@, layer_name),
                   !.active_articles = DictDel(@, layer_name)]
    ELSE c

\* update_article decoding the image before it touches the layer
update_article_decode_first(w, i, article) ==
    LET pixmap == QPixmap(article.local_path)
        c1 == RemoveExisting(w.tabs[i], article.layer_name)
        item == [pixmap |-> pixmap, pos |-> <<article.x, article.y>>,
                 z |-> get_article_z_index(article)]
    IN  IF pixmap.isNull THEN Log(w, "error", "Failed to load image")
        ELSE [w EXCEPT !.tabs[i] =
                 [c1 EXCEPT !.scene = Append(@, item),
                            !.pixmap_items = DictSet(@, article.layer_name, item),
                            !.active_articles =
                                DictSet(@, article.layer_name, article)]]

\* CanvasWidget.update_article
update_article(w, i, article) ==
    LET c1 == RemoveExisting(w.tabs[i], article.layer_name)
        pixmap == QPixmap(article.local_path)
    IN  IF pixmap.isNull
        THEN Log([w EXCEPT !.tabs[i] = c1], "error", "Failed to load image")
        ELSE LET z == get_article_z_index(article)
                 item == [pixmap |-> pixmap, pos |-> <<article.x, article.y>>,
                          z |-> z]
             IN  [w EXCEPT !.tabs[i] =
                     [c1 EXCEPT !.scene = Append(@, item),
                                !.pixmap_items = DictSet(@, article.layer_name, item),
                                !.active_articles =
                                    DictSet(@, article.layer_name, article)]]

\* remove_article without the check that the layer holds this article
remove_article_any(w, i, article) ==
    [w EXCEPT !.tabs[i] = RemoveExisting(w.tabs[i], article.layer_name)]

\* remove_article forgetting the article but keeping its entry of pixmap_items
remove_article_item_kept(w, i, article) ==
    LET c == w.tabs[i]
        current_article == DictGet(c.active_articles, article.layer_name)
    IN  IF DictHas(c.pixmap_items, article.layer_name)
           /\ current_article # None /\ current_article.id = article.id
        THEN [w EXCEPT !.tabs[i] =
                [c EXCEPT !.scene = removeItem(@, DictGet(c.pixmap_items,
                                                          article.layer_name)),
                          !.active_articles = DictDel(@, article.layer_name)]]
        ELSE w

\* CanvasWidget.remove_article
remove_article(w, i, article) ==
    LET c == w.tabs[i]
        current_article == DictGet(c.active_articles, article.layer_name)
    IN  IF DictHas(c.pixmap_items, article.layer_name)
           /\ current_article # None /\ current_article.id = article.id
        THEN [w EXCEPT !.tabs[i] =
                [c EXCEPT !.scene = removeItem(@, DictGet(c.pixmap_items,
                                                          article.layer_name)),
                          !.pixmap_items = DictDel(@, article.layer_name),
                          !.active_articles = DictDel(@, article.layer_name)]]
        ELSE w

\* CanvasWidget.is_article_active
is_article_active(c, article) ==
    LET current_article == DictGet(c.active_articles, article.layer_name)
    IN  current_article # None /\ current_article.id = article.id

\* QRectF.united
united(r, s) ==
    [x1 |-> IF r.x1 <= s.x1 THEN r.x1 ELSE s.x1,
     y1 |-> IF r.y1 <= s.y1 THEN r.y1 ELSE s.y1,
     x2 |-> IF r.x2 >= s.x2 THEN r.x2 ELSE s.x2,
     y2 |-> IF r.y2 >= s.y2 THEN r.y2 ELSE s.y2]

\* QGraphicsPixmapItem.sceneBoundingRect, [x1, y1, x2, y2]
sceneBoundingRect(it) ==
    [x1 |-> it.pos[1], y1 |-> it.pos[2],
     x2 |-> it.pos[1] + it.pixmap.w, y2 |-> it.pos[2] + it.pixmap.h]

\* the union of the item rectangles; empty for no item
RECURSIVE itemsBoundingRect(_)
itemsBoundingRect(scene) ==
    IF scene = <<>> THEN [x1 |-> 0, y1 |-> 0, x2 |-> 0, y2 |-> 0]
    ELSE IF Tail(scene) = <<>> THEN sceneBoundingRect(Head(scene))
    ELSE united(sceneBoundingRect(Head(scene)), itemsBoundingRect(Tail(scene)))

\* QRectF.isEmpty
isEmpty(r) == r.x2 - r.x1 <= 0 \/ r.y2 - r.y1 <= 0

\* adjust moving the far corner only
adjust_far_corner(r, dx1, dy1, dx2, dy2) ==
    [x1 |-> r.x1, y1 |-> r.y1, x2 |-> r.x2 + dx2, y2 |-> r.y2 + dy2]

\* QRectF.adjust
adjust(r, dx1, dy1, dx2, dy2) ==
    [x1 |-> r.x1 + dx1, y1 |-> r.y1 + dy1, x2 |-> r.x2 + dx2, y2 |-> r.y2 + dy2]

\* the canvas a scene without items is exported on, and the padding
DefaultCanvasSize == 300

Padding == 10

RECURSIVE InsertByZ(_, _)
\* item put into a painting order after every entry with z <= item.z
InsertByZ(order, item) ==
    IF order = <<>> THEN <<item>>
    ELSE IF Head(order).z <= item.z THEN <<Head(order)>> \o InsertByZ(Tail(order), item)
    ELSE <<item>> \o order

RECURSIVE PaintOrder(_)
\* QGraphicsScene.render paints the items by ascending z value, items of
\* equal z in the order they were added
PaintOrder(scene) ==
    IF scene = <<>> THEN <<>>
    ELSE InsertByZ(PaintOrder(SubSeq(scene, 1, Len(scene) - 1)), scene[Len(scene)])

\* the rectangle save_image renders: the default canvas for a scene without
\* items, then the padding on every side
SourceRect(rect) ==
    adjust(IF isEmpty(rect)
           THEN [x1 |-> 0, y1 |-> 0, x2 |-> DefaultCanvasSize, y2 |-> DefaultCanvasSize]
           ELSE rect,
           -Padding, -Padding, Padding, Padding)

\* the image of a source rectangle of a scene
Rendered(rect, scene) ==
    [t |-> "image", width |-> rect.x2 - rect.x1, height |-> rect.y2 - rect.y1,
     source |-> rect, blended |-> PaintOrder(scene)]

\* CanvasWidget.save_image : the image written to file_path
save_image(c) == Rendered(SourceRect(itemsBoundingRect(c.scene)), c.scene)

\* ------------------------------------------------------------------------
\* ui.py : MainWindow.  The window state w is the record
\*   [char_combo, articles_combo, tabs, current, category_selectors,
\*    assets_layout, settings, disk, log, ret]
\* current is the 0-based index of the current tab, -1 without tabs;
\* a combo is [items, index] with a 0-based index, -1 when empty.
\* ------------------------------------------------------------------------
\* QComboBox.findText
findText(combo, text) ==
    IF \E k \in DOMAIN combo.items : combo.items[k] = text
    THEN (CHOOSE k \in DOMAIN combo.items :
              combo.items[k] = text /\ \A m \in 1..(k - 1) : combo.items[m] # text) - 1
    ELSE -1

\* QComboBox.currentText
currentText(combo) == IF combo.index >= 0 THEN combo.items[combo.index + 1] ELSE ""

\* QComboBox.clear followed by addItems, signals blocked
Refill(items) == [items |-> items, index |-> IF items = <<>> THEN -1 ELSE 0]

\* MainWindow.get_current_canvas, as a position in w.tabs (0 for None)
get_current_canvas(w) == w.current + 1

\* category names are one token long; their string order
sortedTokens(names) ==
    SelectSeq([k \in DOMAIN StringOrder |-> Str(StringOrder[k])],
              LAMBDA n : n \in names)

\* MainWindow.clear_asset_selectors
clear_asset_selectors(w) ==
    [w EXCEPT !.category_selectors = <<>>, !.assets_layout = <<>>]

\* get_category_expanded ignoring what the canvas has stored
get_category_expanded_default(c, category_name) == TRUE

\* CanvasWidget.get_category_expanded
get_category_expanded(c, category_name) ==
    IF DictHas(c.category_states, category_name)
    THEN DictGet(c.category_states, category_name) ELSE TRUE

\* CanvasWidget.set_category_expanded
set_category_expanded(w, i, category_name, expanded) ==
    [w EXCEPT !.tabs[i].category_states = DictSet(@, category_name, expanded)]

\* a CollapsibleBox of the asset panel: its category, whether its button is
\* checked (expanded), and the canvas, as a position in w.tabs, that the
\* lambda connected to its button has captured
CollapsibleBox(cat_name, checked, canvas) ==
    [name |-> cat_name, checked |-> checked, canvas |-> canvas]

\* MainWindow.refresh_categories_and_assets(canvas), canvas at position i:
\* one selector per category, "body" first, holding the category's articles
refresh_categories_and_assets(w, i) ==
    LET w1 == clear_asset_selectors(w)
        c == w.tabs[i]
    IN  IF ~c.has_character_data THEN w1
        ELSE LET cats == c.character_data.categories
                 sortedCats == sortedTokens(Range(DictKeys(cats)))
                 categories ==
                     IF \E k \in DOMAIN sortedCats : sortedCats[k] = Str("body")
                     THEN <<Str("body")>> \o
                          SelectSeq(sortedCats, LAMBDA n : n # Str("body"))
                     ELSE sortedCats
             IN  [w1 EXCEPT !.category_selectors =
                     [k \in DOMAIN categories |-> DictGet(cats, categories[k])],
                            !.assets_layout =
                     [k \in DOMAIN categories |->
                         CollapsibleBox(categories[k],
                                        get_category_expanded(c, categories[k]), i)]]

\* a click on the button of box k of the asset panel: the button toggles,
\* and its toggled signal runs the lambda of refresh_categories_and_assets
on_box_toggled(w, k) ==
    LET box == w.assets_layout[k]
        checked == ~box.checked
    IN  set_category_expanded([w EXCEPT !.assets_layout[k].checked = checked],
                              box.canvas, box.name, checked)

\* the second half of reload_data: the canvas takes the catalog loaded, shows
\* the first body article, and the asset panel is rebuilt
reload_data_loaded(w, i, char_data) ==
    refresh_categories_and_assets(
        IF DictHas(char_data.categories, Str("body"))
        THEN update_article(set_character(w, i, char_data), i,
                            DictGet(char_data.categories, Str("body"))[1])
        ELSE set_character(w, i, char_data),
        i)

\* MainWindow.reload_data
reload_data(w) ==
    LET i == get_current_canvas(w)
        char_name == currentText(w.char_combo)
        selected == currentText(w.articles_combo)
    IN  IF i = 0 THEN w
        ELSE IF selected # ""
        THEN IF char_name = "" THEN w
             ELSE reload_data_loaded(w, i, LoadCharacterData(char_name, selected))
        ELSE IF char_name = ""
        THEN Log(w, "warning", "No articles file selected")
        ELSE reload_data_loaded(Log(w, "warning", "No articles file selected"), i,
                                LoadCharacterData(char_name, "articles.txt"))

\* MainWindow.on_character_changed
on_character_changed(w) ==
    LET char_name == currentText(w.char_combo)
        files == Refill(get_available_article_files(char_name))
        index == findText(files, "articles.txt")
        w1 == [w EXCEPT !.articles_combo =
                  IF index >= 0 THEN [files EXCEPT !.index = index] ELSE files]
    IN  IF char_name = "" THEN w
        ELSE IF get_current_canvas(w) = 0 THEN w1
        ELSE reload_data(w1)

\* char_combo.setCurrentIndex: currentIndexChanged fires on a change only
char_combo_setCurrentIndex(w, index) ==
    IF index = w.char_combo.index THEN w
    ELSE on_character_changed([w EXCEPT !.char_combo.index = index])

\* articles_combo.setCurrentIndex, connected to reload_data
articles_combo_setCurrentIndex(w, index) ==
    IF index = w.articles_combo.index THEN w
    ELSE reload_data([w EXCEPT !.articles_combo.index = index])

\* MainWindow.update_ui_from_active_tab
update_ui_from_active_tab(w, index) ==
    IF index < 0 THEN clear_asset_selectors(w)
    ELSE LET c == w.tabs[index + 1] IN
         IF ~c.has_character_data THEN refresh_categories_and_assets(w, index + 1)
         ELSE LET idx == findText(w.char_combo, c.character_data.name)
                  files == Refill(get_available_article_files(c.character_data.name))
                  fidx == findText(files, c.character_data.articles_filename)
                  w1 == [w EXCEPT
                           !.char_combo.index = IF idx >= 0 THEN idx ELSE @,
                           !.articles_combo =
                               IF fidx >= 0 THEN [files EXCEPT !.index = fidx]
                               ELSE files]
              IN  refresh_categories_and_assets(w1, index + 1)

\* tab_widget.setCurrentIndex: currentChanged fires on a change only
tab_setCurrentIndex(w, index) ==
    IF index = w.current THEN w
    ELSE update_ui_from_active_tab([w EXCEPT !.current = index], index)

\* tab_widget.addTab: the first tab becomes the current one
addTab(w, canvas) ==
    LET w1 == [w EXCEPT !.tabs = Append(@, canvas)]
    IN  IF w.tabs = <<>> THEN tab_setCurrentIndex(w1, 0) ELSE w1

\* tab_widget.removeTab: closing the current tab selects its right neighbour
removeTab(w, index) ==
    LET rest == SubSeq(w.tabs, 1, index) \o SubSeq(w.tabs, index + 2, Len(w.tabs))
        w1 == [w EXCEPT !.tabs = rest]
    IN  IF index = w.current
        THEN IF rest = <<>>
             THEN update_ui_from_active_tab([w1 EXCEPT !.current = -1], -1)
             ELSE LET newIndex == IF index > Len(rest) - 1 THEN Len(rest) - 1
                                  ELSE index
                  IN  update_ui_from_active_tab([w1 EXCEPT !.current = newIndex],
                                                newIndex)
        ELSE IF index < w.current
        THEN update_ui_from_active_tab([w1 EXCEPT !.current = w.current - 1],
                                       w.current - 1)
        ELSE w1

\* CanvasWidget.set_zoom
set_zoom(w, i, scale) == [w EXCEPT !.tabs[i].current_zoom = scale]

\* MainWindow.zoom_in ; the zoom is counted in steps of 0.5
zoom_in(w) ==
    LET i == get_current_canvas(w) IN
    IF i = 0 THEN w ELSE set_zoom(w, i, w.tabs[i].current_zoom + 1)

\* MainWindow.zoom_out
zoom_out(w) ==
    LET i == get_current_canvas(w) IN
    IF i = 0 THEN w ELSE set_zoom(w, i, w.tabs[i].current_zoom - 1)

\* MainWindow.create_new_document; addTab returns the index of the new tab,
\* the number of tabs there were
create_new_document(w) ==
    reload_data(
        tab_setCurrentIndex(addTab(w, [CanvasWidget EXCEPT !.current_zoom = DefaultZoom]),
                            Len(w.tabs)))

\* MainWindow.on_tab_close_requested
on_tab_close_requested(w, index) == IF index >= 0 THEN removeTab(w, index) ELSE w

\* MainWindow.close_current_tab
close_current_tab(w) == on_tab_close_requested(w, w.current)

\* MainWindow.on_asset_clicked, for the item holding article
on_asset_clicked(w, article) ==
    LET i == get_current_canvas(w) IN
    IF i = 0 THEN w
    ELSE IF is_article_active(w.tabs[i], article) THEN remove_article(w, i, article)
    ELSE update_article(w, i, article)

\* MainWindow.save_character : the image written, kept as the handler's result
save_character(w, file_path) ==
    LET i == get_current_canvas(w) IN
    IF i = 0 \/ file_path = "" THEN w
    ELSE [w EXCEPT !.ret = save_image(w.tabs[i])]

\* ------------------------------------------------------------------------
\* Project files: JSON values are tagged, a JSON object is a dict
\* ------------------------------------------------------------------------
JStr(s) == [t |-> "str", v |-> s]

\* a Python bool returned by a handler
Bool(b) == [t |-> "bool", v |-> b]

JList(l) == [t |-> "list", v |-> l]

JNum(n) == [t |-> "num", v |-> n]

\* Python truthiness of a JSON value
Truthy(v) ==
    CASE v.t = "None" -> FALSE
      [] v.t = "str"  -> v.v # ""
      [] v.t = "list" -> v.v # <<>>
      [] v.t = "num"  -> v.v # 0

\* a file: exists, can be written, parses as JSON, and the object it holds
NoFile == [exists |-> FALSE, writable |-> TRUE, valid |-> FALSE, data |-> <<>>]

JsonFile(data, writable) ==
    [exists |-> TRUE, writable |-> writable, valid |-> TRUE, data |-> data]

\* the length of the recent-files list
MaxRecentFiles == 10

\* add_recent_file without the limit
add_recent_file_unlimited(w, file_path) ==
    LET recent_files == w.settings.recent_files
        removed == SelectSeq(recent_files, LAMBDA f : f # file_path)
    IN  [w EXCEPT !.settings.recent_files = <<file_path>> \o removed]

\* MainWindow.add_recent_file
add_recent_file(w, file_path) ==
    LET recent_files == w.settings.recent_files
        removed == SelectSeq(recent_files, LAMBDA f : f # file_path)
        inserted == <<file_path>> \o removed
        limited == IF Len(inserted) > MaxRecentFiles
                   THEN SubSeq(inserted, 1, MaxRecentFiles)
                   ELSE inserted
    IN  [w EXCEPT !.settings.recent_files = limited]

\* MainWindow._save_to_file
save_to_file(w, file_path) ==
    LET i == get_current_canvas(w) IN
    IF i = 0 THEN w
    ELSE LET canvas == w.tabs[i]
             values == DictValues(canvas.active_articles)
             active_ids == [k \in DOMAIN values |-> values[k].id]
             data == << <<"character_name", JStr(canvas.character_data.name)>>,
                        <<"articles_file",
                          JStr(canvas.character_data.articles_filename)>>,
                        <<"active_articles", JList(active_ids)>> >>
         IN  IF ~w.disk[file_path].writable
             THEN LogException(w, "critical", "Failed to save project", "Permission denied")
             ELSE add_recent_file(
                      Log([w EXCEPT !.disk[file_path] = JsonFile(data, TRUE),
                                    !.tabs[i].project_file_path = file_path],
                          "information", "Project saved"),
                      file_path)

\* MainWindow.save_project_as, file_path being the dialog's answer
save_project_as(w, file_path) ==
    LET i == get_current_canvas(w) IN
    IF i = 0 \/ ~w.tabs[i].has_character_data
    THEN Log(w, "warning", "No active project to save.")
    ELSE IF file_path = "" THEN w
    ELSE save_to_file(w, file_path)

\* MainWindow.save_project
save_project(w, file_path) ==
    LET i == get_current_canvas(w) IN
    IF i = 0 \/ ~w.tabs[i].has_character_data
    THEN Log(w, "warning", "No active project to save.")
    ELSE IF w.tabs[i].project_file_path # ""
    THEN save_to_file(w, w.tabs[i].project_file_path)
    ELSE save_project_as(w, file_path)

\* CharacterData.get_article_by_id : the first article, in catalog order,
\* with that id; None when there is none
get_article_by_id(cd, art_id) ==
    IF \E k \in DOMAIN cd.articles : cd.articles[k].id = art_id
    THEN cd.articles[CHOOSE k \in DOMAIN cd.articles :
                        cd.articles[k].id = art_id
                        /\ \A m \in 1..(k - 1) : cd.articles[m].id # art_id]
    ELSE None

RECURSIVE RestoreArticles_abort(_, _, _)
\* the loop over the saved ids giving up at the first id without an article
RestoreArticles_abort(w, i, active_ids) ==
    IF active_ids = <<>> THEN w
    ELSE IF get_article_by_id(w.tabs[i].character_data, Head(active_ids)) = None
    THEN Log(w, "warning", "Article not found")
    ELSE RestoreArticles_abort(
             update_article(w, i, get_article_by_id(w.tabs[i].character_data,
                                                    Head(active_ids))),
             i, Tail(active_ids))

RECURSIVE RestoreArticles(_, _, _)
\* the loop of open_project_file over the saved ids
RestoreArticles(w, i, active_ids) ==
    IF active_ids = <<>> THEN w
    ELSE LET article == get_article_by_id(w.tabs[i].character_data, Head(active_ids))
             w1 == IF article # None THEN update_article(w, i, article)
                   ELSE Log(w, "warning", "Article not found")
         IN  RestoreArticles(w1, i, Tail(active_ids))

\* the except branch of open_project_file, e being the exception's text
OpenFailed(w, e) ==
    [LogException(w, "critical", "Failed to save project", e) EXCEPT !.ret = Bool(FALSE)]

\* open_project_file from the restore loop on, w being the window after
\* canvas.clear()
OpenRestore(w, i, file_path, active_ids) ==
    IF active_ids.t # "list" THEN OpenFailed(w, "object is not iterable")
    ELSE [add_recent_file(
             [RestoreArticles(w, i, active_ids.v)
                 EXCEPT !.tabs[i].project_file_path = file_path],
             file_path)
             EXCEPT !.ret = Bool(TRUE)]

\* open_project_file restoring on top of what reload_data selected
OpenArticlesFile_noclear(w, i, file_path, data) ==
    LET idx == findText(w.articles_combo, DictGet(data, "articles_file").v) IN
    OpenRestore(IF idx # -1 THEN articles_combo_setCurrentIndex(w, idx) ELSE w,
                i, file_path,
                IF DictHas(data, "active_articles")
                THEN DictGet(data, "active_articles") ELSE JList(<<>>))

\* open_project_file from the articles file on, w being the window after
\* char_combo.setCurrentIndex
OpenArticlesFile(w, i, file_path, data) ==
    LET idx == findText(w.articles_combo, DictGet(data, "articles_file").v) IN
    OpenRestore(clear(IF idx # -1 THEN articles_combo_setCurrentIndex(w, idx) ELSE w, i),
                i, file_path,
                IF DictHas(data, "active_articles")
                THEN DictGet(data, "active_articles") ELSE JList(<<>>))

\* open_project_file from the new document on, w being the window after
\* create_new_document
OpenInNewDocument(w, file_path, data) ==
    LET i == get_current_canvas(w)
        idx == findText(w.char_combo, DictGet(data, "character_name").v)
    IN  IF i = 0 THEN [w EXCEPT !.ret = Bool(FALSE)]
        ELSE IF idx = -1
        THEN [close_current_tab(Log(w, "critical", "Character not found"))
                 EXCEPT !.ret = Bool(FALSE)]
        ELSE OpenArticlesFile(char_combo_setCurrentIndex(w, idx), i, file_path, data)

\* open_project_file creating the document before it checks the fields
open_project_file_create_first(w, file_path) ==
    LET file == w.disk[file_path] IN
    IF ~file.exists THEN OpenFailed(w, "No such file or directory")
    ELSE IF ~file.valid THEN OpenFailed(w, "Expecting value")
    ELSE IF ~Truthy(DictGet(file.data, "character_name"))
            \/ ~Truthy(DictGet(file.data, "articles_file"))
    THEN OpenFailed(create_new_document(w), "Invalid project file format.")
    ELSE OpenInNewDocument(create_new_document(w), file_path, file.data)

\* MainWindow.open_project_file
open_project_file(w, file_path) ==
    LET file == w.disk[file_path] IN
    IF ~file.exists THEN OpenFailed(w, "No such file or directory")
    ELSE IF ~file.valid THEN OpenFailed(w, "Expecting value")
    ELSE IF ~Truthy(DictGet(file.data, "character_name"))
            \/ ~Truthy(DictGet(file.data, "articles_file"))
    THEN OpenFailed(w, "Invalid project file format.")
    ELSE OpenInNewDocument(create_new_document(w), file_path, file.data)

\* every way to draw one article from each of the named categories that has
\* articles, in the order of the names: a set of article sequences
RECURSIVE Draws(_, _)
Draws(cd, names) ==
    IF names = <<>> THEN {<<>>}
    ELSE LET list == IF DictHas(cd.categories, Head(names))
                     THEN DictGet(cd.categories, Head(names)) ELSE <<>>
             rest == Draws(cd, Tail(names))
         IN  IF list = <<>> THEN rest
             ELSE {<<list[k]>> \o r : k \in DOMAIN list, r \in rest}

\* CharacterData.get_random_outfit : the outfits it can return
get_random_outfit(cd) == Draws(cd, DictKeys(cd.categories))

\* CharacterData.get_random_articles_subset : the results it can return
get_random_articles_subset(cd, categories) == Draws(cd, categories)

RECURSIVE UpdateArticles(_, _, _)
\* for article in articles: canvas.update_article(article)
UpdateArticles(w, i, articles) ==
    IF articles = <<>> THEN w
    ELSE UpdateArticles(update_article(w, i, Head(articles)), i, Tail(articles))

\* step 1 of randomize_character, char_idx being the random index
RandomizeCharacterCombo(w, char_idx) ==
    IF Len(w.char_combo.items) > 0 THEN char_combo_setCurrentIndex(w, char_idx) ELSE w

\* step 2 of randomize_character, art_idx being the random index
RandomizeArticlesCombo(w, art_idx) ==
    IF Len(w.articles_combo.items) > 0
    THEN articles_combo_setCurrentIndex(w, art_idx) ELSE w

\* step 3 of randomize_character testing the canvas instead of the outfit
RandomizeOutfit_canvas(w, new_outfit) ==
    LET i == get_current_canvas(w) IN
    IF i = 0 \/ ~w.tabs[i].has_character_data THEN w
    ELSE IF w.tabs[i].active_articles = <<>>
    THEN Log(w, "information", "No articles found to randomize.")
    ELSE UpdateArticles(clear(w, i), i, new_outfit)

\* step 3 of randomize_character, new_outfit being the outfit drawn
RandomizeOutfit(w, new_outfit) ==
    LET i == get_current_canvas(w) IN
    IF i = 0 \/ ~w.tabs[i].has_character_data THEN w
    ELSE IF new_outfit = <<>>
    THEN Log(w, "information", "No articles found to randomize.")
    ELSE UpdateArticles(clear(w, i), i, new_outfit)

\* the categories change_outfit leaves alone
excluded == {Str("body"), Str("hair"), Str("face"), Str("head")}

\* change_outfit: the categories it draws from
target_categories(cd) ==
    SelectSeq(DictKeys(cd.categories), LAMBDA c : c \notin excluded)

\* MainWindow.change_outfit, new_articles being the articles drawn
change_outfit(w, new_articles) ==
    LET i == get_current_canvas(w) IN
    IF i = 0 \/ ~w.tabs[i].has_character_data THEN w
    ELSE UpdateArticles(w, i, new_articles)

\* MainWindow.populate_characters
populate_characters(w) ==
    LET chars == sorted({ResDirs[k] : k \in DOMAIN ResDirs}
                        \ ({"data"} \cup DotNames))
    IN  IF chars = <<>> THEN w
        ELSE on_character_changed([w EXCEPT !.char_combo = Refill(chars)])

\* closeEvent keeping an entry for the untitled documents too
closeEvent_every_tab(w, geometry, state) ==
    [w EXCEPT !.settings.last_session_files =
                  JList([k \in DOMAIN w.tabs |-> w.tabs[k].project_file_path]),
              !.settings.window_geometry = geometry,
              !.settings.window_state = state]

\* MainWindow.closeEvent, geometry and state being what saveGeometry() and
\* saveState() return
closeEvent(w, geometry, state) ==
    LET paths == [k \in DOMAIN w.tabs |-> w.tabs[k].project_file_path]
        open_files == SelectSeq(paths, LAMBDA file_path : file_path # "")
    IN  [w EXCEPT !.settings.last_session_files = JList(open_files),
                  !.settings.window_geometry = geometry,
                  !.settings.window_state = state]

RECURSIVE OpenLastFiles(_, _, _)
\* the loop of restore_last_session: the window and the files opened so far
OpenLastFiles(w, last_files, files_opened) ==
    IF last_files = <<>> THEN [w |-> w, files_opened |-> files_opened]
    ELSE IF ~w.disk[Head(last_files)].exists
    THEN OpenLastFiles(w, Tail(last_files), files_opened)
    ELSE LET w1 == open_project_file(w, Head(last_files)) IN
         OpenLastFiles(w1, Tail(last_files),
                       IF w1.ret = Bool(TRUE) THEN files_opened + 1 ELSE files_opened)

\* MainWindow.restore_last_session
restore_last_session(w) ==
    LET last_files == IF w.settings.last_session_files.t = "list"
                      THEN w.settings.last_session_files.v ELSE <<>>
        opened == OpenLastFiles(w, last_files, 0)
    IN  IF opened.files_opened = 0 THEN create_new_document(opened.w) ELSE opened.w

\* MainWindow.restore_ui_session, a being the window's [pc, geometry, state]
restore_ui_session(a, w) ==
    [a EXCEPT !.geometry = IF Truthy(w.settings.window_geometry)
                           THEN w.settings.window_geometry ELSE @,
              !.state = IF Truthy(w.settings.window_state)
                        THEN w.settings.window_state ELSE @]

\* ------------------------------------------------------------------------
\* The project files on disk when the program starts.  a.stp, written by
\* another version of the program when girl still had an articles.txt, and
\* new.stp, which does not exist, can be written; the user saves to a.stp.
\* ------------------------------------------------------------------------
ProjectFiles ==
    ("a.stp" :>
        JsonFile(<< <<"version", JNum(3)>>,
                    <<"character_name", JStr("girl")>>,
                    <<"articles_file", JStr("articles.txt")>>,
                    <<"active_articles", JList(<<Str("2"), Str("7"), Str("1")>>)>> >>,
                 TRUE)) @@
    ("new.stp" :> NoFile) @@
    ("nochar.stp" :>
        JsonFile(<< <<"articles_file", JStr("articles.txt")>>,
                    <<"comment", JStr("no character")>>,
                    <<"active_articles", JList(<<Str("1")>>)>> >>, FALSE)) @@
    ("emptyfile.stp" :>
        JsonFile(<< <<"character_name", JStr("girl")>>,
                    <<"articles_file", JStr("")>>,
                    <<"active_articles", JList(<<Str("1")>>)>> >>, FALSE)) @@
    ("corrupt.stp" :>
        [exists |-> TRUE, writable |-> FALSE, valid |-> FALSE, data |-> <<>>]) @@
    ("troll.stp" :>
        JsonFile(<< <<"character_name", JStr("troll")>>,
                    <<"articles_file", JStr("articles.txt")>>,
                    <<"active_articles", JList(<<>>)>> >>, FALSE)) @@
    ("badlist.stp" :>
        JsonFile(<< <<"character_name", JStr("girl")>>,
                    <<"articles_file", JStr("articles_b.txt")>>,
                    <<"active_articles", JNum(5)>> >>, FALSE))

Paths == DOMAIN ProjectFiles

\* the paths the user gives to the save dialog
SavePaths == {"a.stp"}

\* ------------------------------------------------------------------------
\* State
\* ------------------------------------------------------------------------
VARIABLES
    char_combo,          \* MainWindow.char_combo: [items, index]
    articles_combo,      \* MainWindow.articles_combo: [items, index]
    tabs,                \* tab_widget: the canvases, in tab order
    current,             \* tab_widget.currentIndex()
    category_selectors,  \* the asset panel: the articles of each selector
    assets_layout,       \* the asset panel: the box of each category
    settings,            \* QSettings: [recent_files, last_session_files,
                         \* window_geometry, window_state], None for no value
    disk,                \* the project files, by path
    last,                \* what the last handler reported: [log, ret]
    probe,               \* the last direct method call: [method, article, prior, ret]
    inventory,           \* an inventory file written for a test, and the
                         \* catalog loaded from it: [written, lines, catalog]
    app                  \* the main window: how far its construction has
                         \* come, its geometry and its dock and toolbar
                         \* state: [pc, geometry, state]

vars == <<char_combo, articles_combo, tabs, current, category_selectors,
          assets_layout, settings, disk, last, probe, inventory, app>>

\* the window state the handlers work on, with an empty log
Window ==
    [char_combo |-> char_combo, articles_combo |-> articles_combo, tabs |-> tabs,
     current |-> current, category_selectors |-> category_selectors,
     assets_layout |-> assets_layout,
     settings |-> settings, disk |-> disk, log |-> <<>>, ret |-> None]

\* the window before MainWindow.__init__ has populated it
EmptyWindow ==
    [char_combo |-> Refill(<<>>), articles_combo |-> Refill(<<>>), tabs |-> <<>>,
     current |-> -1, category_selectors |-> <<>>, assets_layout |-> <<>>,
     settings |-> [recent_files |-> <<>>, last_session_files |-> None,
                   window_geometry |-> None, window_state |-> None],
     disk |-> ProjectFiles,
     log |-> <<>>, ret |-> None]

\* MainWindow.__init__ with fresh settings: the characters are listed, no
\* session is restored, so that one untitled document is created
MainWindow == create_new_document(populate_characters(EmptyWindow))

\* the window as __init__ builds it: resize(1200, 800), the tools dock and
\* the toolbar in their places
DefaultGeometry == JStr("1200x800")

DefaultState == JStr("docked")

\* the window constructed and shown
RunningApp == [pc |-> "running", geometry |-> DefaultGeometry, state |-> DefaultState]

\* no inventory file has been written for a test
NoInventory == [written |-> <<>>, lines |-> <<>>, catalog |-> None]

\* the window is in the state result
Shown(result) ==
    \E w \in {result} :
        /\ char_combo' = w.char_combo
        /\ articles_combo' = w.articles_combo
        /\ tabs' = w.tabs
        /\ current' = w.current
        /\ category_selectors' = w.category_selectors
        /\ assets_layout' = w.assets_layout
        /\ settings' = w.settings
        /\ disk' = w.disk
        /\ last' = [log |-> w.log, ret |-> w.ret]

\* a handler of the running window has taken it to the state result
Effect(result) ==
    /\ UNCHANGED <<inventory, app>>
    /\ Shown(result)

\* no method has been called directly yet
NoProbe == [method |-> "", article |-> None, prior |-> None, ret |-> None]

\* a handler of the window has run
Done(result) == Effect(result) /\ UNCHANGED probe

Init ==
    \E w \in {MainWindow} :
        /\ char_combo = w.char_combo
        /\ articles_combo = w.articles_combo
        /\ tabs = w.tabs
        /\ current = w.current
        /\ category_selectors = w.category_selectors
        /\ assets_layout = w.assets_layout
        /\ settings = w.settings
        /\ disk = w.disk
        /\ last = [log |-> w.log, ret |-> None]
        /\ probe = NoProbe
        /\ inventory = NoInventory
        /\ app = RunningApp

\* the articles shown in the asset panel
PanelArticles == UNION {Range(category_selectors[k]) : k \in DOMAIN category_selectors}

\* every article of every inventory file of the tree
AllArticles == UNION {Range(LoadedFiles[k].articles) : k \in DOMAIN LoadedFiles}

\* ------------------------------------------------------------------------
\* Actions: one per user operation
\* ------------------------------------------------------------------------
\* File > New Project
NewProject ==
    /\ Len(tabs) < MaxTabs
    /\ Done(create_new_document(Window))

\* the close button of tab index
CloseTab(index) ==
    /\ index \in 0..(Len(tabs) - 1)
    /\ Done(on_tab_close_requested(Window, index))

\* a click on tab index
SwitchTab(index) ==
    /\ index \in 0..(Len(tabs) - 1)
    /\ index # current
    /\ Done(tab_setCurrentIndex(Window, index))

\* the user picks another character
SelectCharacter(index) ==
    /\ index \in 0..(Len(char_combo.items) - 1)
    /\ index # char_combo.index
    /\ Done(char_combo_setCurrentIndex(Window, index))

\* the user picks another articles file
SelectArticlesFile(index) ==
    /\ index \in 0..(Len(articles_combo.items) - 1)
    /\ index # articles_combo.index
    /\ Done(articles_combo_setCurrentIndex(Window, index))

\* a click on the item of article in the asset panel
AssetClicked(article) ==
    /\ article \in PanelArticles
    /\ Done(on_asset_clicked(Window, article))

\* File > Export
SaveCharacter ==
    /\ current >= 0
    /\ Done(save_character(Window, "out.png"))

\* File > Save Project, file_path being the answer to the dialog if it opens
SaveProject(file_path) ==
    /\ Done(save_project(Window, file_path))

\* File > Save Project As
SaveProjectAs(file_path) ==
    /\ Done(save_project_as(Window, file_path))

\* File > Open Project, and the recent-files menu
OpenProject(file_path) ==
    /\ Len(tabs) < MaxTabs
    /\ Done(open_project_file(Window, file_path))

\* Randomize: a random character, a random articles file out of the list
\* the character change left, a random outfit of the catalog then loaded
RandomizeCharacter(char_idx) ==
    /\ char_idx \in 0..(Len(char_combo.items) - 1)
    /\ \E w1 \in {RandomizeCharacterCombo(Window, char_idx)} :
       \E art_idx \in 0..(IF w1.articles_combo.items = <<>> THEN 0
                           ELSE Len(w1.articles_combo.items) - 1) :
       \E w2 \in {RandomizeArticlesCombo(w1, art_idx)} :
          IF get_current_canvas(w2) = 0
             \/ ~w2.tabs[get_current_canvas(w2)].has_character_data
          THEN Done(w2)
          ELSE \E new_outfit \in
                    get_random_outfit(w2.tabs[get_current_canvas(w2)].character_data) :
                  Done(RandomizeOutfit(w2, new_outfit))

\* Change Outfit: a random article for every category but the excluded ones
ChangeOutfit ==
    /\ current >= 0
    /\ tabs[current + 1].has_character_data
    /\ \E new_articles \in
            get_random_articles_subset(tabs[current + 1].character_data,
                target_categories(tabs[current + 1].character_data)) :
          Done(change_outfit(Window, new_articles))

Next ==
    \/ NewProject
    \/ \E index \in 0..(MaxTabs - 1) : CloseTab(index)
    \/ \E index \in 0..(MaxTabs - 1) : SwitchTab(index)
    \/ \E index \in 0..(Len(char_combo.items) - 1) : SelectCharacter(index)
    \/ \E index \in 0..(Len(articles_combo.items) - 1) : SelectArticlesFile(index)
    \/ \E article \in PanelArticles : AssetClicked(article)
    \/ SaveCharacter
    \/ \E file_path \in SavePaths : SaveProject(file_path)
    \/ \E file_path \in SavePaths : SaveProjectAs(file_path)
    \/ \E file_path \in Paths : OpenProject(file_path)
    \/ \E char_idx \in 0..(Len(char_combo.items) - 1) : RandomizeCharacter(char_idx)
    \/ ChangeOutfit

Spec == Init /\ [][Next]_vars

\* ------------------------------------------------------------------------
\* The methods of CanvasWidget and CharacterData called directly, as the
\* unit tests call them, on the canvas of the first document.  The caller
\* may pass any article, also one of a catalog the canvas does not hold.
\* ------------------------------------------------------------------------
\* the layer names get_article_z_index is asked about
ProbeLayers == Range(layer_order) \cup {Str("face"), Str("head"), Str("Body"), <<>>}

ProbeArticle(layer_name) ==
    Article(Str("x"), Str("img"), Str("cat"), layer_name, 0, 0, Str("-1"),
            <<"", "data", Str("img")>>)

\* the entry the canvas has for the layer of article
PriorEntry(article) == DictGet(tabs[1].active_articles, article.layer_name)

\* canvas.update_article(article)
CallUpdateArticle(article) ==
    /\ Effect(update_article(Window, 1, article))
    /\ probe' = [method |-> "update_article", article |-> article,
                 prior |-> PriorEntry(article), ret |-> None]

\* canvas.remove_article(article)
CallRemoveArticle(article) ==
    /\ Effect(remove_article(Window, 1, article))
    /\ probe' = [method |-> "remove_article", article |-> article,
                 prior |-> PriorEntry(article), ret |-> None]

\* canvas.clear()
CallClear ==
    /\ Effect(clear(Window, 1))
    /\ probe' = [NoProbe EXCEPT !.method = "clear"]

\* canvas.is_article_active(article)
CallIsArticleActive(article) ==
    /\ Effect(Window)
    /\ probe' = [method |-> "is_article_active", article |-> article,
                 prior |-> PriorEntry(article),
                 ret |-> is_article_active(tabs[1], article)]

\* char_data.get_article_z_index(article)
CallGetArticleZIndex(article) ==
    /\ Effect(Window)
    /\ probe' = [method |-> "get_article_z_index", article |-> article,
                 prior |-> None, ret |-> get_article_z_index(article)]

NextUnit ==
    \/ \E article \in AllArticles : CallUpdateArticle(article)
    \/ \E article \in AllArticles : CallRemoveArticle(article)
    \/ CallClear
    \/ \E article \in AllArticles : CallIsArticleActive(article)
    \/ \E layer_name \in ProbeLayers : CallGetArticleZIndex(ProbeArticle(layer_name))

SpecUnit == Init /\ [][NextUnit]_vars

\* ------------------------------------------------------------------------
\* CharacterData.load called directly, as test_character_data_load calls
\* it, on an articles.txt written line by line under <res_root>/hero.  A
\* line written is [kind, fields, nums, indent]: fields are the quoted
\* fields of the line, nums the integers its fields 5 and 6 denote (None
\* for a field that is not an integer).  A sentinel line is any line that
\* holds the token HCDataSetFile_data outside a comment.
\* ------------------------------------------------------------------------
\* how many lines a file gets
MaxLines == 4

\* an integer a field denotes
Num(n) == [t |-> "int", v |-> n]

Line(kind, fields, nums, indent) ==
    [kind |-> kind, fields |-> fields, nums |-> nums, indent |-> indent]

BodyFields ==
    <<Str("1"), <<"body", ".png">>, Str("body"), Str("body"), Str("0"), Str("0"),
      Str("-1")>>

\* the lines a file is written from
LineChoices ==
    { Line("blank", <<>>, <<None, None>>, <<" ">>),
      Line("comment", BodyFields, <<Num(0), Num(0)>>, <<>>),
      Line("sentinel", <<Str("HCDataSetFile_data"), <<"1", ".", "0">>>>,
           <<None, None>>, <<>>),
      Line("sentinel",
           <<Str("7"), <<"HCDataSetFile_data", ".png">>, Str("body"), Str("body"),
             Str("0"), Str("0"), Str("-1")>>, <<Num(0), Num(0)>>, <<>>),
      Line("record", BodyFields, <<Num(0), Num(0)>>, <<>>),
      Line("record",
           <<Str("2"), <<"shirt", ".png">>, Str("tops"), Str("tops"), Str("10"),
             Str("20"), Str("-1")>>, <<Num(10), Num(20)>>, <<" ", " ">>),
      Line("record",
           <<Str("1"), <<"body", "_brazos_arriba", ".png">>, Str("body"),
             Str("body"), Str("0"), Str("0"), Str("0")>>, <<Num(0), Num(0)>>, <<>>),
      Line("record",
           <<Str("4"), <<"short", ".png">>, Str("hats"), Str("hats"), Str("0"),
             Str("0")>>, <<Num(0), Num(0)>>, <<>>),
      Line("record",
           <<Str("3"), <<"boots", ".png">>, Str("tops"), Str("shoes"), Str("5"),
             Str("abc"), Str("-1"), Str("extra")>>, <<Num(5), None>>, <<>>),
      Line("record",
           <<Str("6"), <<"cap", ".png">>, Str("hats"), Str("hats"), Str("x1"),
             Str("20"), Str("-1")>>, <<None, Num(20)>>, <<"\t">>) }

\* the text of a line
Text(l) ==
    CASE l.kind = "blank"    -> l.indent \o <<"\n">>
      [] l.kind = "comment"  -> <<"#", " ">> \o RecordLine(l.fields) \o <<"\n">>
      [] l.kind = "sentinel" -> RecordLine(l.fields) \o <<"\n">>
      [] l.kind = "record"   -> l.indent \o RecordLine(l.fields) \o <<"\n">>

\* the test appends a line to the file
WriteLine(l) ==
    /\ inventory.catalog = None
    /\ Len(inventory.written) < MaxLines
    /\ inventory' = [inventory EXCEPT !.written = Append(@, l),
                                      !.lines = Append(@, Text(l))]
    /\ UNCHANGED <<char_combo, articles_combo, tabs, current, category_selectors,
                   assets_layout, settings, disk, last, probe, app>>

\* char_data = CharacterData("hero", res_path); char_data.load()
CallLoad ==
    /\ inventory.catalog = None
    /\ inventory' = [inventory EXCEPT !.catalog =
                        LoadFrom(CharacterData("hero", "articles.txt"),
                                 inventory.lines)]
    /\ UNCHANGED <<char_combo, articles_combo, tabs, current, category_selectors,
                   assets_layout, settings, disk, last, probe, app>>

NextLoad ==
    \/ \E l \in LineChoices : WriteLine(l)
    \/ CallLoad

SpecLoad == Init /\ [][NextLoad]_vars

\* ------------------------------------------------------------------------
\* Randomize with the outfit that get_random_outfit returned kept in
\* probe.ret; the clicks, combo changes and new documents in between
\* forget it.  No document is closed: Randomize always has a canvas.
\* ------------------------------------------------------------------------
\* Randomize, as RandomizeCharacter, with the outfit drawn
RandomizeDrawn(char_idx) ==
    /\ char_idx \in 0..(Len(char_combo.items) - 1)
    /\ \E w1 \in {RandomizeCharacterCombo(Window, char_idx)} :
       \E art_idx \in 0..(IF w1.articles_combo.items = <<>> THEN 0
                           ELSE Len(w1.articles_combo.items) - 1) :
       \E w2 \in {RandomizeArticlesCombo(w1, art_idx)} :
       \E new_outfit \in
             get_random_outfit(w2.tabs[get_current_canvas(w2)].character_data) :
          /\ Effect(RandomizeOutfit(w2, new_outfit))
          /\ probe' = [method |-> "randomize_character", article |-> None,
                       prior |-> None, ret |-> new_outfit]

\* the user picks another character, another articles file, or clicks an
\* article of the asset panel
PickCharacter(index) ==
    /\ index # char_combo.index
    /\ Effect(char_combo_setCurrentIndex(Window, index))
    /\ probe' = NoProbe

PickArticlesFile(index) ==
    /\ index # articles_combo.index
    /\ Effect(articles_combo_setCurrentIndex(Window, index))
    /\ probe' = NoProbe

ClickAsset(article) ==
    /\ Effect(on_asset_clicked(Window, article))
    /\ probe' = NoProbe

\* File > New Project, and a click on another tab
AddDocument ==
    /\ Len(tabs) < MaxTabs
    /\ Effect(create_new_document(Window))
    /\ probe' = NoProbe

PickTab(index) ==
    /\ index # current
    /\ Effect(tab_setCurrentIndex(Window, index))
    /\ probe' = NoProbe

NextRandom ==
    \/ \E char_idx \in 0..(Len(char_combo.items) - 1) : RandomizeDrawn(char_idx)
    \/ \E index \in 0..(Len(char_combo.items) - 1) : PickCharacter(index)
    \/ \E index \in 0..(Len(articles_combo.items) - 1) : PickArticlesFile(index)
    \/ \E article \in PanelArticles : ClickAsset(article)
    \/ AddDocument
    \/ \E index \in 0..(Len(tabs) - 1) : PickTab(index)

SpecRandom == Init /\ [][NextRandom]_vars

\* ------------------------------------------------------------------------
\* The Zoom In (+) and Zoom Out (-) buttons on the documents of the window.  The zoom of a
\* document is followed for MaxZoomSteps steps of 0.5 either side of the
\* default.
\* ------------------------------------------------------------------------
MaxZoomSteps == 9

\* a click on Zoom In (+)
ZoomIn ==
    /\ current >= 0 => tabs[current + 1].current_zoom < DefaultZoom + MaxZoomSteps
    /\ Done(zoom_in(Window))

\* a click on Zoom Out (-)
ZoomOut ==
    /\ current >= 0 => tabs[current + 1].current_zoom > DefaultZoom - MaxZoomSteps
    /\ Done(zoom_out(Window))

NextZoom ==
    \/ ZoomIn
    \/ ZoomOut
    \/ AddDocument
    \/ \E index \in 0..(Len(tabs) - 1) : PickTab(index)
    \/ \E index \in 0..(Len(tabs) - 1) : CloseTab(index)

SpecZoom == Init /\ [][NextZoom]_vars

\* ------------------------------------------------------------------------
\* The boxes of the asset panel collapsed and expanded, with documents
\* created, switched and closed and the inventory file changed in between.
\* A document stores the flag of up to MaxStored categories.
\* ------------------------------------------------------------------------
MaxStored == 2

\* a click on the button of box k
ToggleCategory(k) ==
    /\ k \in DOMAIN assets_layout
    /\ LET c == tabs[assets_layout[k].canvas] IN
       \/ DictHas(c.category_states, assets_layout[k].name)
       \/ Len(c.category_states) < MaxStored
    /\ Done(on_box_toggled(Window, k))

NextPanel ==
    \/ \E k \in DOMAIN assets_layout : ToggleCategory(k)
    \/ AddDocument
    \/ \E index \in 0..(Len(tabs) - 1) : PickTab(index)
    \/ \E index \in 0..(Len(tabs) - 1) : CloseTab(index)
    \/ \E index \in 0..(Len(articles_combo.items) - 1) : PickArticlesFile(index)

SpecPanel == Init /\ [][NextPanel]_vars

\* ------------------------------------------------------------------------
\* Saves and opens in a window whose settings hold the recent-files list
\* that earlier sessions have left.
\* ------------------------------------------------------------------------
\* the project files of earlier sessions, most recent first
EarlierFiles ==
    <<"r0.stp", "r1.stp", "r2.stp", "r3.stp", "r4.stp", "r5.stp", "r6.stp",
      "r7.stp", "r8.stp", "r9.stp">>

\* the lists found in the settings: the n most recent earlier files, or
\* MaxRecentFiles files with a.stp among them
RecentChoices ==
    {SubSeq(EarlierFiles, 1, n) : n \in 0..MaxRecentFiles}
    \cup {SubSeq(EarlierFiles, 1, p - 1) \o <<"a.stp">>
             \o SubSeq(EarlierFiles, p, MaxRecentFiles - 1) : p \in 1..MaxRecentFiles}

\* the paths the user gives to the save dialog
RecentSavePaths == {"a.stp", "new.stp"}

InitRecent ==
    \E recent_files \in RecentChoices :
    \E w \in {[MainWindow EXCEPT !.settings.recent_files = recent_files]} :
        /\ char_combo = w.char_combo
        /\ articles_combo = w.articles_combo
        /\ tabs = w.tabs
        /\ current = w.current
        /\ category_selectors = w.category_selectors
        /\ assets_layout = w.assets_layout
        /\ settings = w.settings
        /\ disk = w.disk
        /\ last = [log |-> w.log, ret |-> None]
        /\ probe = NoProbe
        /\ inventory = NoInventory
        /\ app = RunningApp

NextRecent ==
    \/ \E file_path \in RecentSavePaths : SaveProject(file_path)
    \/ \E file_path \in RecentSavePaths : SaveProjectAs(file_path)
    \/ \E file_path \in Paths : OpenProject(file_path)
    \/ \E index \in 0..(Len(tabs) - 1) : CloseTab(index)
    \/ \E index \in 0..(Len(tabs) - 1) : SwitchTab(index)

SpecRecent == InitRecent /\ [][NextRecent]_vars

\* ------------------------------------------------------------------------
\* The window closed and constructed again.  __init__ is followed from
\* populate_characters on: restore_ui_session, then restore_last_session.
\* ------------------------------------------------------------------------
\* how the user can arrange the window: its geometry and its state
Layouts ==
    {<<DefaultGeometry, DefaultState>>, <<JStr("640x480"), JStr("floating")>>}

\* a handler of the running window
Running(handler) == app.pc = "running" /\ handler

\* the user resizes the window or moves the tools dock
ArrangeWindow(layout) ==
    /\ app.pc = "running"
    /\ layout # <<app.geometry, app.state>>
    /\ app' = [app EXCEPT !.geometry = layout[1], !.state = layout[2]]
    /\ UNCHANGED <<char_combo, articles_combo, tabs, current, category_selectors,
                   assets_layout, settings, disk, last, probe, inventory>>

\* the user closes the window
CloseWindow ==
    /\ app.pc = "running"
    /\ Shown(closeEvent(Window, app.geometry, app.state))
    /\ app' = [app EXCEPT !.pc = "closed"]
    /\ UNCHANGED <<probe, inventory>>

\* the program is started again: MainWindow.__init__ up to
\* populate_characters, with the settings and the files as they are
Launch ==
    /\ app.pc = "closed"
    /\ Shown(populate_characters([EmptyWindow EXCEPT !.settings = settings,
                                                     !.disk = disk]))
    /\ app' = [RunningApp EXCEPT !.pc = "restore_ui_session"]
    /\ UNCHANGED <<probe, inventory>>

\* __init__ : self.restore_ui_session()
RestoreUiSession ==
    /\ app.pc = "restore_ui_session"
    /\ app' = [restore_ui_session(app, Window) EXCEPT !.pc = "restore_last_session"]
    /\ UNCHANGED <<char_combo, articles_combo, tabs, current, category_selectors,
                   assets_layout, settings, disk, last, probe, inventory>>

\* __init__ : self.restore_last_session()
RestoreLastSession ==
    /\ app.pc = "restore_last_session"
    /\ Shown(restore_last_session(Window))
    /\ app' = [app EXCEPT !.pc = "running"]
    /\ UNCHANGED <<probe, inventory>>

NextSession ==
    \/ Running(NewProject)
    \/ \E index \in 0..(Len(tabs) - 1) : Running(CloseTab(index))
    \/ \E file_path \in RecentSavePaths : Running(SaveProjectAs(file_path))
    \/ \E file_path \in Paths : Running(OpenProject(file_path))
    \/ \E layout \in Layouts : ArrangeWindow(layout)
    \/ CloseWindow
    \/ Launch
    \/ RestoreUiSession
    \/ RestoreLastSession

SpecSession == Init /\ [][NextSession]_vars

\* ------------------------------------------------------------------------
\* Every operation on the documents of one window, the zoom buttons
\* included.  The zoom is followed for MaxDocsZoom steps either side of the
\* default, and while no project file has been written; projects are saved
\* from documents at the default zoom.
\* ------------------------------------------------------------------------
MaxDocsZoom == 1

\* no project file has been written since the program started
Unwritten == disk = ProjectFiles

\* every document shows at the default zoom
Unzoomed == \A i \in DOMAIN tabs : tabs[i].current_zoom = DefaultZoom

DocsZoomIn ==
    /\ Unwritten
    /\ current >= 0 => tabs[current + 1].current_zoom < DefaultZoom + MaxDocsZoom
    /\ ZoomIn

DocsZoomOut ==
    /\ Unwritten
    /\ current >= 0 => tabs[current + 1].current_zoom > DefaultZoom - MaxDocsZoom
    /\ ZoomOut

NextDocs ==
    \/ NewProject
    \/ \E index \in 0..(Len(tabs) - 1) : CloseTab(index)
    \/ \E index \in 0..(Len(tabs) - 1) : SwitchTab(index)
    \/ \E index \in 0..(Len(char_combo.items) - 1) : SelectCharacter(index)
    \/ \E index \in 0..(Len(articles_combo.items) - 1) : SelectArticlesFile(index)
    \/ \E article \in PanelArticles : AssetClicked(article)
    \/ SaveCharacter
    \/ \E file_path \in SavePaths : Unzoomed /\ SaveProject(file_path)
    \/ \E file_path \in Paths : OpenProject(file_path)
    \/ \E char_idx \in 0..(Len(char_combo.items) - 1) : RandomizeCharacter(char_idx)
    \/ ChangeOutfit
    \/ DocsZoomIn
    \/ DocsZoomOut

SpecDocs == Init /\ [][NextDocs]_vars

\* ------------------------------------------------------------------------
\* Properties
\* ------------------------------------------------------------------------
\* the layers a canvas has an active article for, and its layer -> id pairs
ActiveLayers(c) == Range(DictKeys(c.active_articles))

Mappings(c) ==
    {<<c.active_articles[k][1], c.active_articles[k][2].id>> :
        k \in DOMAIN c.active_articles}

ErrorLogged == <<"error", "Failed to load image", "">> \in Range(last.log)

\* C1: in every document the active map holds at most one article for every
\* layer, and the scene holds exactly the one image of each active layer:
\* nothing is stacked within a layer
C1_LayerExclusivity ==
    \A i \in DOMAIN tabs :
        LET c == tabs[i] IN
        /\ \A k, m \in DOMAIN c.active_articles :
              c.active_articles[k][1] = c.active_articles[m][1] => k = m
        /\ Len(c.scene) = Cardinality(ActiveLayers(c))
        /\ \A layer \in ActiveLayers(c) :
              \E k \in DOMAIN c.scene : c.scene[k] = DictGet(c.pixmap_items, layer)

\* C1 witness: a select has replaced the default body of a document by
\* another article of the body layer, the only image the document shows
C1_Witness ==
    /\ current >= 0
    /\ LET c == tabs[current + 1] IN
       /\ DictHas(c.active_articles, Str("body"))
       /\ DictGet(c.active_articles, Str("body")).image_name = <<"dress", ".png">>
       /\ Len(c.scene) = 1

\* C2: update_article with an article whose image does not decode reports
\* an error and leaves the article's layer without an active entry, whatever
\* the layer held before
C2_DecodeFailureClearsLayer ==
    (probe.method = "update_article" /\ QPixmap(probe.article.local_path).isNull)
    => /\ ErrorLogged
       /\ ~DictHas(tabs[1].active_articles, probe.article.layer_name)
       /\ ~DictHas(tabs[1].pixmap_items, probe.article.layer_name)

\* C2 witness: the failed call was made on a layer that held an article
C2_Witness ==
    /\ probe.method = "update_article"
    /\ QPixmap(probe.article.local_path).isNull
    /\ probe.prior # None
    /\ ~DictHas(tabs[1].active_articles, probe.article.layer_name)

\* C3: update_article with an article whose image decodes makes it the
\* active entry of its layer and leaves the entry of every other layer as
\* it was
C3_SelectFrame ==
    [][(probe'.method = "update_article"
        /\ ~QPixmap(probe'.article.local_path).isNull)
       => /\ is_article_active(tabs'[1], probe'.article)
          /\ DictGet(tabs'[1].active_articles, probe'.article.layer_name)
                = probe'.article
          /\ \A layer \in (ActiveLayers(tabs[1]) \cup ActiveLayers(tabs'[1]))
                            \ {probe'.article.layer_name} :
                DictGet(tabs'[1].active_articles, layer)
                    = DictGet(tabs[1].active_articles, layer)]_vars

\* C3 witness: the call replaced another article of the layer while a
\* second layer was occupied
C3_Witness ==
    /\ probe.method = "update_article"
    /\ probe.prior # None
    /\ probe.prior # probe.article
    /\ is_article_active(tabs[1], probe.article)
    /\ Cardinality(ActiveLayers(tabs[1])) >= 2

\* C4: remove_article removes the entry of the article's layer exactly when
\* the layer's active article has the article's id, after which the article
\* is not active; in every other case the active map stays as it is
C4_DeselectGuard ==
    [][probe'.method = "remove_article"
       => LET article == probe'.article
              current_article == DictGet(tabs[1].active_articles, article.layer_name)
          IN  IF current_article # None /\ current_article.id = article.id
              THEN /\ ~DictHas(tabs'[1].active_articles, article.layer_name)
                   /\ ~is_article_active(tabs'[1], article)
                   /\ \A layer \in ActiveLayers(tabs[1]) \ {article.layer_name} :
                         DictGet(tabs'[1].active_articles, layer)
                             = DictGet(tabs[1].active_articles, layer)
              ELSE tabs'[1].active_articles = tabs[1].active_articles]_vars

\* C4 witness: the call named an article of another id than the one its
\* layer holds, and the layer still holds that one
C4_Witness ==
    /\ probe.method = "remove_article"
    /\ probe.prior # None
    /\ probe.prior.id # probe.article.id
    /\ DictGet(tabs[1].active_articles, probe.article.layer_name) = probe.prior

\* the z value the specification gives each layer name
ClaimedZ(layer_name) ==
    CASE layer_name = Str("behind")    -> 0
      [] layer_name = Str("body")      -> 1
      [] layer_name = Str("hair")      -> 2
      [] layer_name = Str("underware") -> 3
      [] layer_name = Str("tops")      -> 4
      [] layer_name = Str("shoes")     -> 5
      [] layer_name = Str("bottoms")   -> 6
      [] layer_name = Str("jackets")   -> 7
      [] layer_name = Str("hats")      -> 8
      [] layer_name = Str("infront")   -> 9
      [] OTHER                         -> 0

KnownLayers ==
    {Str("behind"), Str("body"), Str("hair"), Str("underware"), Str("tops"),
     Str("shoes"), Str("bottoms"), Str("jackets"), Str("hats"), Str("infront")}

\* the z value of the image a canvas shows for a layer
ItemZ(c, layer) == DictGet(c.pixmap_items, layer).z

SaveJustDone ==
    /\ <<"information", "Project saved", "">> \in Range(last.log)

\* C5: opening the project file that was just saved, nothing edited in
\* between, gives a document with the layer -> id pairs of the saved one
C5_RoundTrip ==
    [][(/\ SaveJustDone
        /\ current >= 0
        /\ OpenProject(tabs[current + 1].project_file_path)
        /\ last'.ret = Bool(TRUE))
       => Mappings(tabs'[current' + 1]) = Mappings(tabs[current + 1])]_vars

\* C6 as stated: no two active articles of a document have the same z
C6_NoZTies ==
    \A i \in DOMAIN tabs :
        \A l1, l2 \in ActiveLayers(tabs[i]) :
            l1 # l2 => ItemZ(tabs[i], l1) # ItemZ(tabs[i], l2)

\* C6 amended: no two active articles on layers of layer_order have the
\* same z; an active article on any other layer has z 0, the z of behind
C6_NoZTiesOnKnownLayers ==
    \A i \in DOMAIN tabs :
        /\ \A l1, l2 \in ActiveLayers(tabs[i]) \cap KnownLayers :
              l1 # l2 => ItemZ(tabs[i], l1) # ItemZ(tabs[i], l2)
        /\ \A l \in ActiveLayers(tabs[i]) \ KnownLayers : ItemZ(tabs[i], l) = 0

\* C6 witness: a document shows articles on two layers of layer_order
C6_Witness ==
    \E i \in DOMAIN tabs :
        {Str("body"), Str("tops")} \subseteq ActiveLayers(tabs[i])

\* C7: an export blends every active image once, and the image of a layer
\* of lower z before the image of a layer of higher z
C7_BlendOrder ==
    (last.ret.t = "image" /\ current >= 0)
    => LET c == tabs[current + 1]
           blended == last.ret.blended
       IN  /\ Len(blended) = Cardinality(ActiveLayers(c))
           /\ \A l1, l2 \in ActiveLayers(c) :
                 ClaimedZ(l1) < ClaimedZ(l2)
                 => \E p, q \in DOMAIN blended :
                       /\ p < q
                       /\ blended[p] = DictGet(c.pixmap_items, l1)
                       /\ blended[q] = DictGet(c.pixmap_items, l2)

\* C7 witness: an export of a document whose tops article was selected
\* before its body article
C7_Witness ==
    /\ last.ret.t = "image"
    /\ current >= 0
    /\ DictKeys(tabs[current + 1].active_articles) = <<Str("tops"), Str("body")>>

\* C8: get_article_z_index returns the position of the layer in the fixed
\* sequence, 0 for any other layer name; shoes lie above 0 and above body
C8_LayerZ ==
    probe.method = "get_article_z_index"
    => /\ probe.ret = ClaimedZ(probe.article.layer_name)
       /\ probe.article.layer_name \notin KnownLayers => probe.ret = 0
       /\ probe.article.layer_name = Str("shoes")
          => /\ probe.ret > 0
             /\ probe.ret > get_article_z_index(ProbeArticle(Str("body")))

\* C8 witness: the z of a shoes article was asked for
C8_Witness ==
    /\ probe.method = "get_article_z_index"
    /\ probe.article.layer_name = Str("shoes")
    /\ probe.ret = 5

\* the articles a canvas shows, and the box around their images
ActiveArticles(c) == Range(DictValues(c.active_articles))

Least(S) == CHOOSE n \in S : \A m \in S : n <= m

Greatest(S) == CHOOSE n \in S : \A m \in S : n >= m

BoxWidth(c) ==
    Greatest({a.x + QPixmap(a.local_path).w : a \in ActiveArticles(c)})
    - Least({a.x : a \in ActiveArticles(c)})

BoxHeight(c) ==
    Greatest({a.y + QPixmap(a.local_path).h : a \in ActiveArticles(c)})
    - Least({a.y : a \in ActiveArticles(c)})

\* C9 as stated: an export without active image is 300 x 300, any other
\* export is the box of the images widened by the padding on each side
C9_ExportSizeUnpaddedDefault ==
    (last.ret.t = "image" /\ current >= 0)
    => LET c == tabs[current + 1] IN
       IF ActiveArticles(c) = {}
       THEN last.ret.width = 300 /\ last.ret.height = 300
       ELSE /\ last.ret.width = BoxWidth(c) + 2 * 10
            /\ last.ret.height = BoxHeight(c) + 2 * 10

\* C9 amended: an export without active image is 320 x 320, the 300 x 300
\* default widened by the padding like any other box
C9_ExportSize ==
    (last.ret.t = "image" /\ current >= 0)
    => LET c == tabs[current + 1] IN
       IF ActiveArticles(c) = {}
       THEN last.ret.width = 320 /\ last.ret.height = 320
       ELSE /\ last.ret.width = BoxWidth(c) + 2 * 10
            /\ last.ret.height = BoxHeight(c) + 2 * 10

\* C9 witness: an export of a document without active image
C9_Witness ==
    /\ last.ret.t = "image"
    /\ current >= 0
    /\ ActiveArticles(tabs[current + 1]) = {}
    /\ last.ret.width = 320

\* a project file that parses but lacks character_name or articles_file
RequiredFieldMissing(file) ==
    /\ file.exists /\ file.valid
    /\ \/ ~Truthy(DictGet(file.data, "character_name"))
       \/ ~Truthy(DictGet(file.data, "articles_file"))

\* a project file with both required fields, a known character, a list of
\* ids, and a field the program does not know
WellFormedWithExtraField(file) ==
    /\ file.exists /\ file.valid
    /\ ~RequiredFieldMissing(file)
    /\ findText(char_combo, DictGet(file.data, "character_name").v) >= 0
    /\ DictGet(file.data, "active_articles").t \in {"None", "list"}
    /\ \E k \in DOMAIN file.data :
          file.data[k][1] \notin {"character_name", "articles_file", "active_articles"}

FormatError ==
    <<"critical", "Failed to save project", "Invalid project file format.">>

\* C10: opening a project file without character_name or articles_file
\* fails with the format error and leaves the documents, the current tab,
\* the combos and the asset panel as they were; a file with an unknown
\* field opens.  (A project is opened only while a tab is free.)
C10_RequiredFields ==
    [][Len(tabs) < MaxTabs =>
       \A file_path \in Paths :
          /\ (RequiredFieldMissing(disk[file_path]) /\ OpenProject(file_path))
             => /\ last'.ret = Bool(FALSE)
                /\ last'.log = <<FormatError>>
                /\ tabs' = tabs
                /\ current' = current
                /\ char_combo' = char_combo
                /\ articles_combo' = articles_combo
                /\ category_selectors' = category_selectors
          /\ (WellFormedWithExtraField(disk[file_path]) /\ OpenProject(file_path))
             => last'.ret = Bool(TRUE)]_vars

\* C10 witness: the format error was reported while a document was open
C10_Witness ==
    /\ last.ret = Bool(FALSE)
    /\ last.log = <<FormatError>>
    /\ Len(tabs) >= 1

\* the error dialogs of the last handler
Criticals == SelectSeq(last.log, LAMBDA e : e[1] = "critical")

\* C11: an Open Project that returns failure has shown one error and has
\* left the open documents, each with its catalog and selection, as they
\* were before the call
C11_FailedOpenLeavesDocuments ==
    [][Len(tabs) < MaxTabs =>
       \A file_path \in Paths :
          (OpenProject(file_path) /\ last'.ret = Bool(FALSE))
          => /\ Len(Criticals') = 1
             /\ tabs' = tabs]_vars

\* the document an Open Project has just created, the ids its file holds,
\* and the articles they resolve to in the document's catalog
Opened == tabs[current + 1]

SavedIds ==
    LET data == disk[Opened.project_file_path].data IN
    IF DictHas(data, "active_articles") THEN DictGet(data, "active_articles").v
    ELSE <<>>

Resolved == [k \in DOMAIN SavedIds |-> get_article_by_id(Opened.character_data, SavedIds[k])]

NotFound == SelectSeq(last.log, LAMBDA e : e = <<"warning", "Article not found", "">>)

\* the position of a layer in the order the active map was filled
KeyPos(layer) == CHOOSE p \in DOMAIN Opened.active_articles :
                     Opened.active_articles[p][1] = layer

\* the saved id at position k resolves, and no later id resolves to an
\* article of the same layer
LastOnLayer(k) ==
    /\ Resolved[k] # None
    /\ \A m \in (k + 1)..Len(SavedIds) :
          Resolved[m] # None => Resolved[m].layer_name # Resolved[k].layer_name

\* a project file open_project_file can restore: it names a character of
\* the list and an articles file, and holds a list of ids
Restorable(file) ==
    /\ file.exists /\ file.valid
    /\ Truthy(DictGet(file.data, "character_name"))
    /\ Truthy(DictGet(file.data, "articles_file"))
    /\ DictGet(file.data, "character_name").t = "str"
    /\ findText(char_combo, DictGet(file.data, "character_name").v) # -1
    /\ DictHas(file.data, "active_articles")
    /\ DictGet(file.data, "active_articles").t = "list"

\* the current document holds what selecting the resolved articles one by
\* one, in the order of the file, leaves: a layer holds the article of the
\* last id that resolved to it, and the layers were filled in that order
RestoredInOrder ==
    /\ \A layer \in ActiveLayers(Opened) :
          \E k \in DOMAIN SavedIds :
             LastOnLayer(k) /\ Resolved[k] = DictGet(Opened.active_articles, layer)
    /\ \A k \in DOMAIN SavedIds :
          LastOnLayer(k)
          => IF QPixmap(Resolved[k].local_path).isNull
             THEN ~DictHas(Opened.active_articles, Resolved[k].layer_name)
             ELSE DictGet(Opened.active_articles, Resolved[k].layer_name) = Resolved[k]
    /\ \A k, m \in DOMAIN SavedIds :
          (/\ k < m /\ LastOnLayer(k) /\ LastOnLayer(m)
           /\ DictHas(Opened.active_articles, Resolved[k].layer_name)
           /\ DictHas(Opened.active_articles, Resolved[m].layer_name))
          => KeyPos(Resolved[k].layer_name) < KeyPos(Resolved[m].layer_name)

\* C12: opening a project file whose ids do not all resolve succeeds; one
\* warning is logged per id without an article, and the ids that resolve
\* are selected one by one in the order of the file
C12_MissesSkipped ==
    [][Len(tabs) < MaxTabs =>
       \A file_path \in Paths :
          (Restorable(disk[file_path]) /\ OpenProject(file_path))
          => /\ last'.ret = Bool(TRUE)
             /\ Opened'.project_file_path = file_path
             /\ Len(NotFound') =
                   Cardinality({k \in DOMAIN Resolved' : Resolved'[k] = None})
             /\ RestoredInOrder']_vars

\* C12 witness: a file with the ids 2, 7, 1 has been opened; 7 has no
\* article and was skipped with a warning, and the body layer holds the
\* article of id 1, selected after the article of id 2
C12_Witness ==
    /\ last.ret = Bool(TRUE)
    /\ current >= 0
    /\ SavedIds = <<Str("2"), Str("7"), Str("1")>>
    /\ Len(NotFound) = 1
    /\ Resolved[1] # None /\ Resolved[3] # None
    /\ Resolved[1].layer_name = Resolved[3].layer_name
    /\ DictGet(Opened.active_articles, Str("body")) = Resolved[3]

\* the article reload_data selects when it loads the catalog of the current
\* document: the first one of the category body
DefaultBody == DictGet(Opened.character_data.categories, Str("body"))[1]

\* C13: after a successful Open Project every active article of the new
\* document is one a saved id resolved to; the default body selected while
\* the catalog was loaded is active only if its id is among the saved ids
C13_ClearedBeforeRestore ==
    (last.ret = Bool(TRUE) /\ current >= 0)
    => /\ \A layer \in ActiveLayers(Opened) :
             \E k \in DOMAIN SavedIds :
                Resolved[k] = DictGet(Opened.active_articles, layer)
       /\ (/\ DictHas(Opened.character_data.categories, Str("body"))
           /\ DefaultBody \in ActiveArticles(Opened))
          => DefaultBody.id \in Range(SavedIds)

\* C13 witness: a project file without ids has been opened on a catalog
\* with a body category; the new document shows nothing, no default body
C13_Witness ==
    /\ last.ret = Bool(TRUE)
    /\ current >= 0
    /\ SavedIds = <<>>
    /\ DictHas(Opened.character_data.categories, Str("body"))
    /\ ~QPixmap(DefaultBody.local_path).isNull
    /\ Opened.active_articles = <<>>
    /\ Opened.scene = <<>>

\* C14: after a successful Open Project the catalog of the new document is
\* the one the file names: its character and its articles file
C14_ReferencedCatalog ==
    (last.ret = Bool(TRUE) /\ current >= 0)
    => LET data == disk[Opened.project_file_path].data IN
       /\ Opened.character_data.name = DictGet(data, "character_name").v
       /\ Opened.character_data.articles_filename = DictGet(data, "articles_file").v

\* the catalog load() has filled from the file written
Loaded == inventory.catalog # None

\* every article of the catalog, in articles or in a category list
Catalogued ==
    Range(inventory.catalog.articles)
    \cup UNION {Range(inventory.catalog.categories[k][2]) :
                  k \in DOMAIN inventory.catalog.categories}

\* C15: no article of a loaded catalog, in articles or in a category list,
\* has an image name that contains _brazos_arriba
C15_ParseFiltering ==
    Loaded => \A article \in Catalogued :
                 ~Contains(article.image_name, "_brazos_arriba")

\* C15 witness: a file with a _brazos_arriba record after the sentinel and
\* another record has been loaded
C15_Witness ==
    /\ Loaded
    /\ inventory.catalog.articles # <<>>
    /\ \E k, j \in DOMAIN inventory.written :
          /\ j < k
          /\ inventory.written[j].kind = "sentinel"
          /\ inventory.written[k].kind = "record"
          /\ Contains(inventory.written[k].fields[2], "_brazos_arriba")

\* the lines written that the claims say become articles, in file order:
\* records after a sentinel line with at least 7 fields and an image name
\* the filter lets through
ExpectedRecords ==
    SelectSeq(
        [k \in DOMAIN inventory.written |->
            [line |-> inventory.written[k],
             in_data |-> \E j \in 1..(k - 1) :
                            inventory.written[j].kind = "sentinel"]],
        LAMBDA e : /\ e.in_data
                   /\ e.line.kind = "record"
                   /\ Len(e.line.fields) >= 7
                   /\ ~Contains(e.line.fields[2], "_brazos_arriba"))

\* both coordinate fields of a line are integers
Numeric(line) == line.nums[1] # None /\ line.nums[2] # None

C17_BadCoordinates ==
    Loaded
    => /\ Len(inventory.catalog.articles) = Len(ExpectedRecords)
       /\ \A k \in DOMAIN ExpectedRecords :
             ~Numeric(ExpectedRecords[k].line)
             => /\ inventory.catalog.articles[k].id = ExpectedRecords[k].line.fields[1]
                /\ inventory.catalog.articles[k].x = 0
                /\ inventory.catalog.articles[k].y = 0

\* C17 witness: a record with x = 5 and y = abc and a record with a bad x
\* and y = 20 have been loaded
C17_Witness ==
    /\ Loaded
    /\ \E k, m \in DOMAIN ExpectedRecords :
          /\ ExpectedRecords[k].line.nums = <<Num(5), None>>
          /\ ExpectedRecords[m].line.nums = <<None, Num(20)>>
          /\ inventory.catalog.articles[k].x = 0
          /\ inventory.catalog.articles[m].y = 0

\* C18: categories regroups articles: the list of a category holds the
\* articles of that category and no other, in file order and as often as
\* articles does; every article's category has a list and no list is empty
C18_CategoriesRegroup ==
    Loaded
    => LET articles == inventory.catalog.articles
           categories == inventory.catalog.categories
       IN  /\ \A k, m \in DOMAIN categories :
                 categories[k][1] = categories[m][1] => k = m
           /\ \A k \in DOMAIN categories :
                 /\ categories[k][2] # <<>>
                 /\ categories[k][2] =
                       SelectSeq(articles, LAMBDA a : a.category = categories[k][1])
           /\ \A k \in DOMAIN articles : DictHas(categories, articles[k].category)

\* C18 witness: a catalog with two tops articles around a body article
C18_Witness ==
    /\ Loaded
    /\ Len(inventory.catalog.articles) = 3
    /\ inventory.catalog.articles[1].category = Str("tops")
    /\ inventory.catalog.articles[2].category = Str("body")
    /\ inventory.catalog.articles[3].category = Str("tops")
    /\ inventory.catalog.articles[1] # inventory.catalog.articles[3]
    /\ Len(DictGet(inventory.catalog.categories, Str("tops"))) = 2

\* C19: Change Outfit keeps every active article whose category is body,
\* hair, face or head
C19_ChangeOutfitFrame ==
    [][ChangeOutfit
       => \A article \in ActiveArticles(tabs[current + 1]) :
             article.category \in excluded
             => article \in ActiveArticles(tabs'[current' + 1])]_vars

\* the categories of a catalog that have articles
Stocked(cd) == SelectSeq(cd.categories, LAMBDA e : e[2] # <<>>)

\* outfit holds one article of each stocked category of cd, taken from the
\* category's own list, and nothing else
OneOfEach(cd, outfit) ==
    /\ Len(outfit) = Len(Stocked(cd))
    /\ \A k \in DOMAIN Stocked(cd) :
          \E m \in DOMAIN outfit :
             /\ outfit[m] \in Range(Stocked(cd)[k][2])
             /\ outfit[m].category = Stocked(cd)[k][1]
             /\ \A n \in DOMAIN outfit :
                   outfit[n].category = Stocked(cd)[k][1] => n = m

\* randomize_character has said that there is nothing to randomize
NothingToRandomize ==
    <<"information", "No articles found to randomize.", "">> \in Range(last.log)

\* Randomize has just run: the outfit it drew and the catalog it drew from
Drawn == probe.method = "randomize_character"

Catalog == tabs[current + 1].character_data

\* C20: the outfit get_random_outfit returns holds one article of every
\* category of the catalog that has articles, from the category's own
\* list, and nothing else; it is empty for a catalog without categories,
\* and Randomize reports that there is nothing to randomize, and leaves
\* the document as it is, exactly when the outfit is empty
C20_RandomOutfit ==
    Drawn
    => /\ OneOfEach(Catalog, probe.ret)
       /\ Catalog.categories = <<>> => probe.ret = <<>>
       /\ NothingToRandomize <=> probe.ret = <<>>
       /\ probe.ret = <<>> => Catalog.articles = <<>>

\* C20 witness: Randomize has picked ghost, whose catalog has no
\* categories
C20_Witness ==
    /\ Drawn
    /\ Catalog.name = "ghost"
    /\ Catalog.categories = <<>>
    /\ probe.ret = <<>>
    /\ NothingToRandomize

\* C26: in every document the layers that hold an image item are the layers
\* that hold an active article, and the item of a layer shows the image of
\* that layer's article at the article's position
C26_ItemsMatchActive ==
    \A i \in DOMAIN tabs :
        LET c == tabs[i] IN
        /\ Range(DictKeys(c.pixmap_items)) = ActiveLayers(c)
        /\ \A layer \in ActiveLayers(c) :
              /\ DictGet(c.pixmap_items, layer).pixmap.path
                    = DictGet(c.active_articles, layer).local_path
              /\ DictGet(c.pixmap_items, layer).pos
                    = <<DictGet(c.active_articles, layer).x,
                        DictGet(c.active_articles, layer).y>>

\* C26 witness: remove_article has taken the article of a layer off a
\* canvas that still shows another layer
C26_Witness ==
    /\ probe.method = "remove_article"
    /\ probe.prior # None
    /\ probe.prior.id = probe.article.id
    /\ ~DictHas(tabs[1].pixmap_items, probe.article.layer_name)
    /\ ~DictHas(tabs[1].active_articles, probe.article.layer_name)
    /\ tabs[1].pixmap_items # <<>>

\* C28: every active article of a document is an article of the catalog the
\* document holds now; a document without a catalog has no active article
C28_ActiveFromCatalog ==
    \A i \in DOMAIN tabs :
        IF tabs[i].has_character_data
        THEN \A article \in Range(DictValues(tabs[i].active_articles)) :
                 article \in Range(tabs[i].character_data.articles)
        ELSE tabs[i].active_articles = <<>>

\* C28 witness: two documents hold different catalogs, and each shows an
\* article that the catalog of the other does not have
C28_Witness ==
    /\ Len(tabs) = 2
    /\ tabs[1].has_character_data /\ tabs[2].has_character_data
    /\ tabs[1].character_data # tabs[2].character_data
    /\ \E article \in Range(DictValues(tabs[1].active_articles)) :
          article \notin Range(tabs[2].character_data.articles)
    /\ \E article \in Range(DictValues(tabs[2].active_articles)) :
          article \notin Range(tabs[1].character_data.articles)

\* C23: when a document has been created, or the catalog of the current
\* document has been loaded again after a change of character or of
\* inventory file, the active map of that document holds no article
C23_EmptyAfterLoad ==
    [][(/\ current' >= 0
        /\ \/ NewProject
           \/ \E index \in 0..(Len(char_combo.items) - 1) : SelectCharacter(index)
           \/ \E index \in 0..(Len(articles_combo.items) - 1) :
                 SelectArticlesFile(index))
       => tabs'[current' + 1].active_articles = <<>>]_vars

\* C22: the zoom of a new document is 4.0; a step changes the zoom of the
\* current document only, by 0.5 up or down, and that of no other document;
\* and the zoom of every document is strictly positive in every state
C22_ZoomPositive ==
    /\ [](\A i \in DOMAIN tabs : tabs[i].current_zoom > 0)
    /\ [][/\ Len(tabs') > Len(tabs)
             => tabs'[Len(tabs')].current_zoom = DefaultZoom
          /\ Len(tabs') = Len(tabs)
             => \A i \in DOMAIN tabs :
                   /\ tabs'[i].current_zoom - tabs[i].current_zoom \in {-1, 0, 1}
                   /\ tabs'[i].current_zoom # tabs[i].current_zoom
                      => i = current + 1 /\ current' = current]_vars

\* the flag a document holds for a category: the one stored, expanded (TRUE)
\* when none is stored
Flag(c, name) ==
    IF \E e \in Range(c.category_states) : e[1] = name
    THEN (CHOOSE e \in Range(c.category_states) : e[1] = name)[2]
    ELSE TRUE

\* every category name of the resource tree
CategoryNames ==
    UNION {Range(DictKeys(LoadedFiles[k].categories)) : k \in DOMAIN LoadedFiles}

\* C24: the asset panel always shows, for each category of the current
\* document, the flag that document holds (expanded when none is stored); a
\* click on the button of a box inverts the flag of its category in that
\* document and leaves the flags of all other categories, the other boxes
\* and every other document as they are
C24_ExpandedFlags ==
    /\ [](\A k \in DOMAIN assets_layout :
             /\ assets_layout[k].canvas = current + 1
             /\ assets_layout[k].checked
                   = Flag(tabs[current + 1], assets_layout[k].name))
    /\ [][\A k \in DOMAIN assets_layout :
             ToggleCategory(k)
             => /\ Flag(tabs'[current + 1], assets_layout[k].name)
                      = ~Flag(tabs[current + 1], assets_layout[k].name)
                /\ \A name \in CategoryNames \ {assets_layout[k].name} :
                      Flag(tabs'[current + 1], name) = Flag(tabs[current + 1], name)
                /\ assets_layout'
                      = [assets_layout EXCEPT ![k].checked = ~assets_layout[k].checked]
                /\ current' = current
                /\ Len(tabs') = Len(tabs)
                /\ \A j \in DOMAIN tabs : j # current + 1 => tabs'[j] = tabs[j]]_vars

\* C24 witness: a document collapsed body, changed to an inventory file
\* with other categories, collapsed face, and changed back: the panel built
\* again shows body collapsed and the other categories expanded, next to a
\* second document that stores no flag
C24_Witness ==
    /\ Len(tabs) = 2 /\ current = 0
    /\ tabs[1].category_states = << <<Str("body"), FALSE>>, <<Str("face"), FALSE>> >>
    /\ tabs[1].character_data.articles_filename = "articles.txt"
    /\ tabs[2].category_states = <<>>
    /\ [k \in DOMAIN assets_layout |->
           <<assets_layout[k].name, assets_layout[k].checked>>]
          = << <<Str("body"), FALSE>>, <<Str("shoes"), TRUE>>, <<Str("tops"), TRUE>> >>

\* the handler that has just run saved or opened a project file
Succeeded ==
    \/ <<"information", "Project saved", "">> \in Range(last.log)
    \/ last.ret = Bool(TRUE)

\* the recent-files list
Recent == settings.recent_files

\* C27: the recent-files list never holds more than 10 paths nor a path
\* twice; after a successful save or open its first path is the path saved
\* or opened, followed by the paths the list held before, that path taken
\* out, in their old order, the last one dropped if they would be more than
\* 10 in all
C27_RecentFiles ==
    /\ [](/\ Len(Recent) <= 10
          /\ \A k, m \in DOMAIN Recent : Recent[k] = Recent[m] => k = m)
    /\ [][Succeeded'
          => LET path == tabs'[current' + 1].project_file_path
                 others == SelectSeq(Recent, LAMBDA f : f # path)
             IN  /\ Recent' # <<>>
                 /\ Recent'[1] = path
                 /\ Len(Recent') = IF Len(others) >= 10 THEN 10 ELSE Len(others) + 1
                 /\ Tail(Recent') = SubSeq(others, 1, Len(Recent') - 1)]_vars

\* C27 witness: new.stp has been saved or opened with ten other paths in the
\* list: it is first and the oldest path is gone
C27_Witness ==
    /\ Succeeded
    /\ Recent = <<"new.stp">> \o SubSeq(EarlierFiles, 1, 9)

\* the project file paths of the open documents that have one, in tab order
DocumentPaths ==
    SelectSeq([k \in DOMAIN tabs |-> tabs[k].project_file_path],
              LAMBDA file_path : file_path # "")

\* C25: closing the window leaves in the settings, as last_session_files,
\* the paths of the open documents that have one, in tab order, and the
\* window's geometry and state as window_geometry and window_state; while
\* the window is constructed no document exists until window_geometry and
\* window_state have been read, and what was read, if set, is the geometry
\* and state the window has when the documents are restored
C25_SessionSettings ==
    /\ [][app'.pc = "closed" /\ app.pc = "running"
          => /\ settings'.last_session_files = [t |-> "list", v |-> DocumentPaths]
             /\ settings'.window_geometry = app.geometry
             /\ settings'.window_state = app.state
             /\ settings'.window_geometry # None /\ settings'.window_state # None]_vars
    /\ [](app.pc \in {"restore_ui_session", "restore_last_session"} => tabs = <<>>)
    /\ [][app.pc = "restore_ui_session" /\ app'.pc # app.pc
          => /\ app'.pc = "restore_last_session"
             /\ tabs' = <<>>
             /\ settings.window_geometry # None
                => app'.geometry = settings.window_geometry
             /\ settings.window_state # None
                => app'.state = settings.window_state]_vars
    /\ [][tabs = <<>> /\ tabs' # <<>> /\ app.pc # "running"
          => app.pc = "restore_last_session"]_vars

\* C25 witness: a window closed with the documents of new.stp and a.stp, in
\* an arrangement of the user, has been constructed again and shows the
\* two documents in that arrangement
C25_Witness ==
    /\ app.pc = "running"
    /\ settings.last_session_files = [t |-> "list", v |-> <<"new.stp", "a.stp">>]
    /\ settings.window_geometry = JStr("640x480")
    /\ app.geometry = JStr("640x480") /\ app.state = JStr("floating")
    /\ [k \in DOMAIN tabs |-> tabs[k].project_file_path] = <<"new.stp", "a.stp">>
    /\ disk["new.stp"].exists

\* the catalog and the active map of a document
Owned(c) == <<c.has_character_data, c.character_data, c.active_articles>>

\* C21: a step leaves the catalog and the active map of every document but
\* the current one as they are; a step that changes the current tab leaves
\* those of every document as they are; a new document is added after the
\* others, and a closed one is taken out from among them, without a change
\* to theirs
C21_DocumentsIsolated ==
    [][/\ Len(tabs') \in {Len(tabs) - 1, Len(tabs), Len(tabs) + 1}
       /\ Len(tabs') = Len(tabs)
          => \A i \in DOMAIN tabs :
                i # current + 1 \/ current' # current
                => Owned(tabs'[i]) = Owned(tabs[i])
       /\ Len(tabs') = Len(tabs) + 1
          => \A i \in DOMAIN tabs : Owned(tabs'[i]) = Owned(tabs[i])
       /\ Len(tabs') = Len(tabs) - 1
          => \E k \in DOMAIN tabs :
                \A i \in DOMAIN tabs' :
                   Owned(tabs'[i]) = Owned(tabs[IF i < k THEN i ELSE i + 1])]_vars

\* C21 witness: the second document, of girl, is the current one and has
\* been zoomed, while the first shows two articles of another catalog
C21_Witness ==
    /\ Len(tabs) = 2 /\ current = 1
    /\ tabs[2].has_character_data /\ tabs[2].character_data.name = "girl"
    /\ tabs[2].current_zoom # DefaultZoom
    /\ tabs[2].active_articles # <<>>
    /\ tabs[1].has_character_data /\ tabs[1].character_data.name = "boy"
    /\ Len(tabs[1].active_articles) = 2

====
